---------------------------- MODULE Spec2Model ----------------------------
(***************************************************************************)
(* A model of provider-backblaze: the Backblaze client wrapper             *)
(* (internal/clients), and the Bucket, Policy and User external clients    *)
(* of the managed-resource reconcilers (internal/controller/...).          *)
(*                                                                         *)
(* Go strings are sequences of one-character strings, so that "" is << >>, *)
(* slicing is SubSeq and concatenation is \o.  A Go error is the sequence   *)
(* of the message segments that err.Error() joins with ": "; nil is << >>. *)
(***************************************************************************)
EXTENDS Integers, Sequences, FiniteSets, TLC

VARIABLES
    s3,        \* the provider's S3 side: per bucket name, existence, objects, region, policy
    client,    \* the BackblazeClient instance of the connection (Region, ...)
    bucketCR,  \* the Bucket managed resource
    policyCR,  \* the Policy managed resource
    userCR,    \* the User managed resource
    b2,        \* the provider's native side: the application keys of the account
    kube,      \* the Secret named by WriteSecretToRef in the cluster
    now,       \* the time, in hours
    last       \* what the last operation read, called and returned

vars == <<s3, client, bucketCR, policyCR, userCR, b2, kube, now, last>>

\* What the Bucket external client and the Policy external client never touch
nonBucketVars == <<policyCR, userCR, b2, kube, now>>
nonPolicyVars == <<client, bucketCR, userCR, b2, kube, now>>
nonUserVars == <<s3, bucketCR, policyCR>>

-----------------------------------------------------------------------------
(* Bounds of the model *)

MaxObjects == 3     \* object keys 1..MaxObjects may be stored in a bucket
PageSize == 2       \* keys one ListObjectsV2 page holds

-----------------------------------------------------------------------------
(* Strings and errors *)

EmptyStr == << >>
Nil == << >>

NameA == <<"a">>
NameB == <<"b">>
BucketNames == {NameA, NameB}
Objects == 1..MaxObjects
Regions == {"us-west-001", "eu-central-003"}

\* errors.Wrap(err, msg): Error() is msg + ": " + err.Error()
Wrap(err, msg) == <<msg>> \o err

\* errors.New(msg)
NewError(msg) == <<msg>>

\* What the S3 SDK hands back for a failed request: awserr renders an error as
\* "<Code>: <Message>" (plus status and request id), an error built by hand
\* (errors.New, a mock) renders as its bare text.
SdkError(code, message) == <<code, message>>
BareError(text) == <<text>>

ErrNotFoundSdk == SdkError("NotFound", "Not Found")
ErrNoSuchBucketSdk == SdkError("NoSuchBucket", "The specified bucket does not exist")
ErrNoSuchPolicySdk == SdkError("NoSuchBucketPolicy", "The bucket policy does not exist")
ErrBucketNotEmpty == SdkError("BucketNotEmpty", "The bucket you tried to delete is not empty")
ErrTransient == SdkError("RequestError", "send request failed")


-----------------------------------------------------------------------------
(* JSON texts and encoding/json *)

\* A JSON text is kept as what the bytes spell: a string, an array of texts,
\* an object as the list of its members in the order written (array elements
\* are members with key ""), bytes that are not JSON, or no bytes at all.
\* ws says the text carries insignificant whitespace.
JText(t, s, e, ws) == [t |-> t, s |-> s, e |-> e, ws |-> ws]
Member(k, v) == [k |-> k, v |-> v]
JStr(s) == JText("str", s, << >>, FALSE)
JArr(elems) == JText("arr", << >>, [i \in DOMAIN elems |-> Member("", elems[i])], FALSE)
JObj(members) == JText("obj", << >>, members, FALSE)
JBad == JText("bad", <<"{", "x">>, << >>, FALSE)
JEmpty == JText("empty", << >>, << >>, FALSE)
Spaced(text) == [text EXCEPT !.ws = TRUE]

\* The keys of policy documents in the byte order json.Marshal sorts map keys by
KeyOrder == <<"AWS", "Action", "Effect", "Principal", "Resource", "Statement", "Version">>

\* A decoded value (interface{}): nil, a string, a []interface{} or a
\* map[string]interface{} (a function of the keys; the written order is gone)
GoNil == [t |-> "nil", s |-> << >>, e |-> << >>, f |-> << >>]
GoString(s) == [t |-> "str", s |-> s, e |-> << >>, f |-> << >>]
GoSlice(e) == [t |-> "arr", s |-> << >>, e |-> e, f |-> << >>]
GoMap(f) == [t |-> "obj", s |-> << >>, e |-> << >>, f |-> f]

LastIndexOf(members, k) ==
    CHOOSE i \in DOMAIN members :
        /\ members[i].k = k
        /\ \A j \in DOMAIN members : members[j].k = k => j <= i

\* The decoder's value of a well-formed text; a repeated key keeps its last member
RECURSIVE Decode(_)
Decode(text) ==
    CASE text.t = "str" -> GoString(text.s)
      [] text.t = "arr" -> GoSlice([i \in DOMAIN text.e |-> Decode(text.e[i].v)])
      [] text.t = "obj" ->
            GoMap([k \in {text.e[i].k : i \in DOMAIN text.e} |->
                      Decode(text.e[LastIndexOf(text.e, k)].v)])
      [] OTHER -> GoNil

\* json.Unmarshal([]byte(text), &m) with m a map[string]interface{}
Unmarshal(text) ==
    CASE text.t = "empty" ->
            [err |-> NewError("unexpected end of JSON input"), v |-> GoNil]
      [] text.t = "bad" ->
            [err |-> NewError("invalid character 'x' looking for beginning of object key string"),
             v |-> GoNil]
      [] text.t = "str" ->
            [err |-> NewError("json: cannot unmarshal string into Go value of type map[string]interface {}"),
             v |-> GoNil]
      [] text.t = "arr" ->
            [err |-> NewError("json: cannot unmarshal array into Go value of type map[string]interface {}"),
             v |-> GoNil]
      [] OTHER -> [err |-> Nil, v |-> Decode(text)]

\* json.Marshal(v): compact, map keys sorted
RECURSIVE Marshal(_)
Marshal(v) ==
    CASE v.t = "str" -> JStr(v.s)
      [] v.t = "arr" -> JArr([i \in DOMAIN v.e |-> Marshal(v.e[i])])
      [] v.t = "obj" ->
            LET keys == SelectSeq(KeyOrder, LAMBDA k : k \in DOMAIN v.f)
            IN JObj([i \in DOMAIN keys |-> Member(keys[i], Marshal(v.f[keys[i]]))])
      [] OTHER -> JText("null", << >>, << >>, FALSE)

-----------------------------------------------------------------------------
(* The provider's S3 side *)

NoPolicy == JEmpty

NoBucket == [exists |-> FALSE, objects |-> {}, region |-> "",
             btype |-> "", policy |-> NoPolicy]

\* One page of a ListObjectsV2 answer: the PageSize smallest keys after the
\* continuation token, whether more remain, and the token of the next page.
ListPage(objs, token) ==
    LET rest == {o \in objs : o > token}
        contents == {o \in rest : Cardinality({p \in rest : p < o}) < PageSize}
    IN [contents |-> contents,
        truncated |-> Cardinality(rest) > PageSize,
        next |-> IF contents = {} THEN token
                 ELSE CHOOSE m \in contents : \A o \in contents : o <= m]

\* What HeadBucket may answer for bucket b: nil, or an error.
HeadAnswers(st, b) ==
    IF st[b].exists
    THEN {Nil, ErrTransient}
    ELSE {ErrNotFoundSdk, ErrNoSuchBucketSdk, BareError("NotFound"),
          BareError("NoSuchBucket"), ErrTransient}

\* What DeleteBucket answers for bucket b (transient: the request itself fails).
DeleteBucketAnswer(st, b, transient) ==
    IF transient THEN ErrTransient
    ELSE IF ~st[b].exists THEN ErrNoSuchBucketSdk
    ELSE IF st[b].objects # {} THEN ErrBucketNotEmpty
    ELSE Nil

\* What GetBucketLocation may answer for an existing bucket: its location
\* constraint, no constraint at all (the endpoint's own region), or an error.
LocationAnswers(st, b) ==
    {[err |-> Nil, location |-> st[b].region], [err |-> Nil, location |-> ""],
     [err |-> ErrTransient, location |-> ""]}

-----------------------------------------------------------------------------
(* internal/clients: the bucket operations of BackblazeClient *)

Call(op, b) == [op |-> op, bucket |-> b]

isNotFoundError(err) ==
    err # Nil /\ (err = <<"NotFound">> \/ err = <<"NoSuchBucket">>)

\* BucketExists, given HeadBucket's answer
BucketExists(ans) ==
    IF ans # Nil
    THEN IF isNotFoundError(ans)
         THEN [exists |-> FALSE, err |-> Nil]
         ELSE [exists |-> FALSE, err |-> Wrap(ans, "failed to check bucket existence")]
    ELSE [exists |-> TRUE, err |-> Nil]

\* DeleteBucket, given the provider's answer
DeleteBucket(st, b, ans) ==
    IF ans # Nil
    THEN [err |-> Wrap(ans, "failed to delete bucket"), s3 |-> st]
    ELSE [err |-> Nil, s3 |-> [st EXCEPT ![b] = NoBucket]]

\* The loop of DeleteAllObjectsInBucket from its n-th ListObjectsV2 call on;
\* f.list and f.del number the list and the delete request that fail (0: none),
\* f.locked holds the objects a DeleteObjects request leaves in place and names
\* in the Errors of its output, the request itself succeeding.
RECURSIVE DrainLoop(_, _, _, _, _, _)
DrainLoop(exists, objs, token, n, f, reqs) ==
    LET reqsL == Append(reqs, "ListObjectsV2")
        page == ListPage(objs, token)
        reqsD == Append(reqsL, "DeleteObjects")
        objs2 == objs \ (page.contents \ f.locked)
    IN IF ~exists
       THEN [err |-> Wrap(ErrNoSuchBucketSdk, "failed to list objects"),
             objs |-> objs, reqs |-> reqsL]
       ELSE IF f.list = n
       THEN [err |-> Wrap(ErrTransient, "failed to list objects"),
             objs |-> objs, reqs |-> reqsL]
       ELSE IF page.contents = {}
       THEN [err |-> Nil, objs |-> objs, reqs |-> reqsL]
       ELSE IF f.del = n
       THEN [err |-> Wrap(ErrTransient, "failed to delete objects"),
             objs |-> objs, reqs |-> reqsD]
       ELSE IF ~page.truncated
       THEN [err |-> Nil, objs |-> objs2, reqs |-> reqsD]
       ELSE DrainLoop(exists, objs2, page.next, n + 1, f, reqsD)

DeleteAllObjectsInBucket(st, b, f) ==
    LET r == DrainLoop(st[b].exists, st[b].objects, 0, 1, f, << >>)
    IN [err |-> r.err, reqs |-> r.reqs,
        s3 |-> [st EXCEPT ![b].objects = r.objs]]


\* CreateBucket: the request carries the bucket name and, when the region is
\* given and is not the client's, a location constraint; bucketType is not
\* part of the request.
\* The s3.CreateBucketInput that CreateBucket sends: Bucket, the ACL (never
\* set) and the LocationConstraint
CreateBucketRequest(cl, b, bucketType, region) ==
    [bucket |-> b, acl |-> "",
     constraint |-> IF region # "" /\ region # cl.Region THEN region ELSE ""]

CreateBucket(st, cl, b, bucketType, region, transient) ==
    LET req == CreateBucketRequest(cl, b, bucketType, region)
        ans == IF transient THEN ErrTransient
               ELSE IF st[b].exists
               THEN SdkError("BucketAlreadyOwnedByYou", "Your previous request succeeded")
               ELSE Nil
    IN IF ans # Nil
       THEN [err |-> Wrap(ans, "failed to create bucket"), s3 |-> st, req |-> req]
       ELSE [err |-> Nil, req |-> req,
             s3 |-> [st EXCEPT ![b] =
                        [exists |-> TRUE, objects |-> {},
                         region |-> IF req.constraint # "" THEN req.constraint
                                    ELSE cl.Region,
                         btype |-> IF req.acl = "public-read" THEN "allPublic"
                                   ELSE "allPrivate",
                         policy |-> NoPolicy]]]

\* GetBucketLocation, given the provider's answer
GetBucketLocation(ans) ==
    IF ans.err # Nil
    THEN [location |-> "", err |-> Wrap(ans.err, "failed to get bucket location")]
    ELSE [location |-> ans.location, err |-> Nil]

-----------------------------------------------------------------------------
(* apis/bucket/v1beta1 and internal/controller/bucket *)

DeleteIfEmpty == "DeleteIfEmpty"
DeleteAll == "DeleteAll"

GetBucketName(cr) ==
    IF cr.bucketName = EmptyStr THEN cr.name ELSE cr.bucketName

NoFailure == [list |-> 0, del |-> 0, locked |-> {}]
\* at most one request fails: the first failure ends the loop
FailPoints ==
    {NoFailure} \cup {[list |-> i, del |-> 0, locked |-> {}] : i \in 1..MaxObjects}
                \cup {[list |-> 0, del |-> j, locked |-> {}] : j \in 1..MaxObjects}

\* No CreateBucket call, no request sent
NoArgs == [op |-> "", bucket |-> EmptyStr, bucketType |-> "", region |-> ""]
NoRequest == [bucket |-> EmptyStr, acl |-> "", constraint |-> ""]

\* What an operation leaves in `last`
Idle == [op |-> "none", bucket |-> EmptyStr, policy |-> "", answer |-> Nil,
         exists |-> FALSE, upToDate |-> FALSE, err |-> Nil, calls |-> << >>,
         reqs |-> << >>, objsBefore |-> {}, existedBefore |-> FALSE,
         drainErr |-> Nil, delErr |-> Nil,
         doc |-> JEmpty, polBefore |-> JEmpty, getAnswer |-> Nil,
         afterCreate |-> "",
         kcalls |-> << >>, keyID |-> EmptyStr, kubeBefore |-> [exists |-> FALSE, data |-> << >>],
         keysBefore |-> {}, extBefore |-> EmptyStr, authorized |-> FALSE,
         http |-> [fail |-> FALSE, status |-> 0, body |-> ""],
         arn |-> EmptyStr, args |-> NoArgs, req |-> NoRequest, location |-> "",
         requeueAfter |-> 0, ready |-> "", idBefore |-> EmptyStr,
         created |-> FALSE, expBefore |-> 0, locked |-> {},
         worker |-> 0, service |-> 0, eq |-> << >>, afterUpdate |-> ""]

\* A User resource with nothing set, an account without application keys,
\* a cluster without the Secret
NoUserCR == [name |-> EmptyStr, keyName |-> EmptyStr, capabilities |-> << >>,
             bucketID |-> EmptyStr, namePrefix |-> EmptyStr, extName |-> EmptyStr,
             statusKeyID |-> EmptyStr, statusKeyName |-> EmptyStr,
             statusCapabilities |-> << >>]
NoKeys == [keys |-> {}, next |-> 1]
NoSecret == [exists |-> FALSE, data |-> << >>]

\* A Policy resource with nothing set
NoPolicyCR == [name |-> EmptyStr, allowBucket |-> EmptyStr, rawPolicy |-> JEmpty,
               policyName |-> EmptyStr, extName |-> EmptyStr,
               statusPolicyName |-> EmptyStr, statusPolicy |-> JEmpty]

\* external.Observe comparing the location with the region and nothing else
BucketObserve_Strict(cr, headAns, locAns) ==
    LET bucketName == GetBucketName(cr)
        ex == BucketExists(headAns)
        loc == GetBucketLocation(locAns)
        location == IF loc.err # Nil THEN cr.region ELSE loc.location
        upToDate == location = cr.region
    IN IF ex.err # Nil
       THEN [err |-> Wrap(ex.err, "cannot observe bucket"), exists |-> FALSE,
             upToDate |-> FALSE, cr |-> cr,
             calls |-> <<Call("BucketExists", bucketName)>>]
       ELSE IF ~ex.exists
       THEN [err |-> Nil, exists |-> FALSE, upToDate |-> FALSE, cr |-> cr,
             calls |-> <<Call("BucketExists", bucketName)>>]
       ELSE [err |-> Nil, exists |-> TRUE, upToDate |-> upToDate,
             cr |-> [cr EXCEPT !.statusBucketName = bucketName,
                               !.extName = IF cr.extName = EmptyStr
                                           THEN bucketName ELSE cr.extName],
             calls |-> <<Call("BucketExists", bucketName),
                         Call("GetBucketLocation", bucketName)>>]

\* external.Observe
BucketObserve(cr, headAns, locAns) ==
    LET bucketName == GetBucketName(cr)
        ex == BucketExists(headAns)
        loc == GetBucketLocation(locAns)
        location == IF loc.err # Nil THEN cr.region ELSE loc.location
        upToDate == location = "" \/ location = cr.region
    IN IF ex.err # Nil
       THEN [err |-> Wrap(ex.err, "cannot observe bucket"), exists |-> FALSE,
             upToDate |-> FALSE, cr |-> cr,
             calls |-> <<Call("BucketExists", bucketName)>>]
       ELSE IF ~ex.exists
       THEN [err |-> Nil, exists |-> FALSE, upToDate |-> FALSE, cr |-> cr,
             calls |-> <<Call("BucketExists", bucketName)>>]
       ELSE [err |-> Nil, exists |-> TRUE, upToDate |-> upToDate,
             cr |-> [cr EXCEPT !.statusBucketName = bucketName,
                               !.extName = IF cr.extName = EmptyStr
                                           THEN bucketName ELSE cr.extName],
             calls |-> <<Call("BucketExists", bucketName),
                         Call("GetBucketLocation", bucketName)>>]

\* external.Create without the default of the bucket type
BucketCreate_NoDefault(cr, st, cl, transient) ==
    LET bucketName == GetBucketName(cr)
        bucketType == cr.bucketType
        c == CreateBucket(st, cl, bucketName, bucketType, cr.region, transient)
        args == [op |-> "CreateBucket", bucket |-> bucketName,
                 bucketType |-> bucketType, region |-> cr.region]
    IN IF c.err # Nil
       THEN [err |-> Wrap(c.err, "cannot create bucket"), s3 |-> c.s3, cr |-> cr,
             args |-> args, req |-> c.req, cerr |-> c.err]
       ELSE [err |-> Nil, s3 |-> c.s3, cr |-> [cr EXCEPT !.extName = bucketName],
             args |-> args, req |-> c.req, cerr |-> c.err]

\* external.Create
BucketCreate(cr, st, cl, transient) ==
    LET bucketName == GetBucketName(cr)
        bucketType == IF cr.bucketType = "" THEN "allPrivate" ELSE cr.bucketType
        c == CreateBucket(st, cl, bucketName, bucketType, cr.region, transient)
        args == [op |-> "CreateBucket", bucket |-> bucketName,
                 bucketType |-> bucketType, region |-> cr.region]
    IN IF c.err # Nil
       THEN [err |-> Wrap(c.err, "cannot create bucket"), s3 |-> c.s3, cr |-> cr,
             args |-> args, req |-> c.req, cerr |-> c.err]
       ELSE [err |-> Nil, s3 |-> c.s3, cr |-> [cr EXCEPT !.extName = bucketName],
             args |-> args, req |-> c.req, cerr |-> c.err]

\* external.Update that refreshes the status of the resource
BucketUpdate_SetsStatus(cr, st) ==
    [err |-> Nil, s3 |-> st, cr |-> [cr EXCEPT !.statusBucketName = GetBucketName(cr)],
     calls |-> << >>]

\* external.Update
BucketUpdate(cr, st) == [err |-> Nil, s3 |-> st, cr |-> cr, calls |-> << >>]

\* external.Delete; mutant: the bucket is deleted although the drain failed
BucketDelete_IgnoreDrainError(cr, st, f, transient) ==
    LET bucketName == GetBucketName(cr)
        drain == cr.deletionPolicy = DeleteAll
        d == DeleteAllObjectsInBucket(st, bucketName, f)
        st1 == IF drain THEN d.s3 ELSE st
        del == DeleteBucket(st1, bucketName,
                            DeleteBucketAnswer(st1, bucketName, transient))
    IN [err |-> IF del.err # Nil THEN Wrap(del.err, "cannot delete bucket") ELSE Nil,
        s3 |-> del.s3,
        calls |-> (IF drain THEN <<Call("DeleteAllObjectsInBucket", bucketName)>>
                   ELSE << >>) \o <<Call("DeleteBucket", bucketName)>>,
        reqs |-> IF drain THEN d.reqs ELSE << >>,
        drainErr |-> IF drain THEN d.err ELSE Nil, delErr |-> del.err]

\* external.Delete; mutant: the objects are drained whatever the policy is
BucketDelete_AlwaysDrain(cr, st, f, transient) ==
    LET bucketName == GetBucketName(cr)
        d == DeleteAllObjectsInBucket(st, bucketName, f)
        del == DeleteBucket(d.s3, bucketName,
                            DeleteBucketAnswer(d.s3, bucketName, transient))
    IN IF d.err # Nil
       THEN [err |-> Wrap(d.err, "cannot delete objects in bucket"), s3 |-> d.s3,
             calls |-> <<Call("DeleteAllObjectsInBucket", bucketName)>>,
             reqs |-> d.reqs, drainErr |-> d.err, delErr |-> Nil]
       ELSE [err |-> IF del.err # Nil THEN Wrap(del.err, "cannot delete bucket")
                     ELSE Nil,
             s3 |-> del.s3,
             calls |-> <<Call("DeleteAllObjectsInBucket", bucketName),
                         Call("DeleteBucket", bucketName)>>,
             reqs |-> d.reqs, drainErr |-> Nil, delErr |-> del.err]

\* external.Delete
BucketDelete(cr, st, f, transient) ==
    LET bucketName == GetBucketName(cr)
        drain == cr.deletionPolicy = DeleteAll
        d == DeleteAllObjectsInBucket(st, bucketName, f)
        st1 == IF drain THEN d.s3 ELSE st
        del == DeleteBucket(st1, bucketName,
                            DeleteBucketAnswer(st1, bucketName, transient))
    IN IF drain /\ d.err # Nil
       THEN [err |-> Wrap(d.err, "cannot delete objects in bucket"), s3 |-> d.s3,
             calls |-> <<Call("DeleteAllObjectsInBucket", bucketName)>>,
             reqs |-> d.reqs, drainErr |-> d.err, delErr |-> Nil]
       ELSE [err |-> IF del.err # Nil THEN Wrap(del.err, "cannot delete bucket")
                     ELSE Nil,
             s3 |-> del.s3,
             calls |-> (IF drain
                        THEN <<Call("DeleteAllObjectsInBucket", bucketName)>>
                        ELSE << >>) \o <<Call("DeleteBucket", bucketName)>>,
             reqs |-> IF drain THEN d.reqs ELSE << >>,
             drainErr |-> Nil, delErr |-> del.err]


-----------------------------------------------------------------------------
(* The Bucket reconciler's operations as steps *)

BucketCRs ==
    [name : {NameA}, bucketName : {EmptyStr, NameB}, region : Regions,
     deletionPolicy : {"", DeleteIfEmpty, DeleteAll},
     bucketType : {"", "allPublic"}, extName : {EmptyStr},
     statusBucketName : {EmptyStr}]

Clients == [Region : Regions, AuthToken : {""}, AccountID : {""},
            tokenExpiration : {0}]

BucketInit ==
    /\ s3 = [b \in BucketNames |-> NoBucket]
    /\ client \in Clients
    /\ bucketCR \in BucketCRs
    /\ policyCR = NoPolicyCR
    /\ userCR = NoUserCR
    /\ b2 = NoKeys
    /\ kube = NoSecret
    /\ now = 0
    /\ last = Idle

DoBucketObserve ==
    \E headAns \in HeadAnswers(s3, GetBucketName(bucketCR)),
       locAns \in LocationAnswers(s3, GetBucketName(bucketCR)) :
        LET r == BucketObserve(bucketCR, headAns, locAns)
        IN /\ bucketCR' = r.cr
           /\ last' = [Idle EXCEPT !.op = "Observe",
                                   !.bucket = GetBucketName(bucketCR),
                                   !.answer = headAns, !.err = r.err,
                                   !.exists = r.exists, !.upToDate = r.upToDate,
                                   !.calls = r.calls,
                                   !.existedBefore = s3[GetBucketName(bucketCR)].exists,
                                   !.getAnswer = IF Len(r.calls) > 1 THEN locAns.err ELSE Nil,
                                   !.location = IF Len(r.calls) > 1 THEN locAns.location
                                                ELSE ""]
           /\ UNCHANGED <<s3, client>>
           /\ UNCHANGED nonBucketVars

DoBucketCreate ==
    \E transient \in BOOLEAN :
        LET r == BucketCreate(bucketCR, s3, client, transient)
        IN /\ s3' = r.s3
           /\ bucketCR' = r.cr
           /\ last' = [Idle EXCEPT !.op = "Create",
                                   !.bucket = GetBucketName(bucketCR),
                                   !.err = r.err, !.answer = r.cerr,
                                   !.calls = <<Call("CreateBucket", r.args.bucket)>>,
                                   !.args = r.args, !.req = r.req,
                                   !.existedBefore = s3[GetBucketName(bucketCR)].exists]
           /\ UNCHANGED client
           /\ UNCHANGED nonBucketVars

DoBucketUpdate ==
    LET r == BucketUpdate(bucketCR, s3)
    IN /\ s3' = r.s3
       /\ bucketCR' = r.cr
       /\ last' = [Idle EXCEPT !.op = "Update",
                               !.bucket = GetBucketName(bucketCR),
                               !.err = r.err, !.calls = r.calls]
       /\ UNCHANGED client
       /\ UNCHANGED nonBucketVars

DoBucketDelete ==
    \E f \in FailPoints, transient \in BOOLEAN :
        LET b == GetBucketName(bucketCR)
            r == BucketDelete(bucketCR, s3, f, transient)
        IN /\ s3' = r.s3
           /\ last' = [Idle EXCEPT !.op = "Delete", !.bucket = b,
                                   !.policy = bucketCR.deletionPolicy,
                                   !.err = r.err, !.calls = r.calls,
                                   !.reqs = r.reqs,
                                   !.drainErr = r.drainErr,
                                   !.delErr = r.delErr,
                                   !.objsBefore = s3[b].objects,
                                   !.existedBefore = s3[b].exists]
           /\ UNCHANGED <<client, bucketCR>>
           /\ UNCHANGED nonBucketVars

\* A direct call of BackblazeClient.BucketExists
DoBucketExists ==
    \E b \in BucketNames : \E ans \in HeadAnswers(s3, b) :
        LET r == BucketExists(ans)
        IN /\ last' = [Idle EXCEPT !.op = "BucketExists", !.bucket = b,
                                   !.answer = ans, !.err = r.err,
                                   !.exists = r.exists,
                                   !.existedBefore = s3[b].exists]
           /\ UNCHANGED <<s3, client, bucketCR>>
           /\ UNCHANGED nonBucketVars

\* Somebody stores an object in an existing bucket
EnvPutObject ==
    \E b \in BucketNames, o \in Objects :
        /\ s3[b].exists
        /\ o \notin s3[b].objects
        /\ s3' = [s3 EXCEPT ![b].objects = @ \cup {o}]
        /\ last' = Idle
        /\ UNCHANGED <<client, bucketCR>>
        /\ UNCHANGED nonBucketVars

\* Somebody edits spec.forProvider.bucketName of the resource
EnvEditBucketName ==
    \E n \in {EmptyStr, NameB} :
        /\ n # bucketCR.bucketName
        /\ bucketCR' = [bucketCR EXCEPT !.bucketName = n]
        /\ last' = Idle
        /\ UNCHANGED <<s3, client>>
        /\ UNCHANGED nonBucketVars

\* Somebody edits spec.forProvider.region of the resource
EnvEditRegion ==
    \E region \in Regions :
        /\ region # bucketCR.region
        /\ bucketCR' = [bucketCR EXCEPT !.region = region]
        /\ last' = Idle
        /\ UNCHANGED <<s3, client>>
        /\ UNCHANGED nonBucketVars

BucketNext ==
    \/ DoBucketObserve
    \/ DoBucketCreate
    \/ DoBucketUpdate
    \/ DoBucketDelete
    \/ DoBucketExists
    \/ EnvPutObject

SpecBucket == BucketInit /\ [][BucketNext]_vars

\* The reconciler of a Bucket whose spec.forProvider.bucketName gets edited
BucketRenameInit ==
    /\ BucketInit
    /\ bucketCR.deletionPolicy # DeleteAll

BucketRenameNext ==
    \/ DoBucketObserve
    \/ DoBucketCreate
    \/ DoBucketUpdate
    \/ DoBucketDelete
    \/ EnvEditBucketName
    \/ EnvEditRegion

SpecBucketRename == BucketRenameInit /\ [][BucketRenameNext]_vars


-----------------------------------------------------------------------------
(* Properties of the Bucket reconciler *)

HasCall(calls, op) == \E i \in DOMAIN calls : calls[i].op = op

\* C1: a Delete of a Bucket whose BucketDeletionPolicy is DeleteAll calls
\* DeleteAllObjectsInBucket first and DeleteBucket, if at all, right after it;
\* when DeleteAllObjectsInBucket fails, Delete returns an error and makes no
\* DeleteBucket call.
C1_DeleteAllDrainsBeforeDelete ==
    (last.op = "Delete" /\ last.policy = DeleteAll) =>
        /\ Len(last.calls) >= 1
        /\ last.calls[1] = Call("DeleteAllObjectsInBucket", last.bucket)
        /\ \A i \in DOMAIN last.calls :
               last.calls[i].op = "DeleteBucket" =>
                   /\ i = 2
                   /\ last.calls[i].bucket = last.bucket
        /\ last.drainErr # Nil =>
               /\ last.err # Nil
               /\ ~HasCall(last.calls, "DeleteBucket")
        /\ last.drainErr = Nil => HasCall(last.calls, "DeleteBucket")

\* C1 witnesses: a DeleteAll Delete of a bucket holding more than one page of
\* objects that drained it and deleted it ...
C1_Witness ==
    /\ last.op = "Delete" /\ last.policy = DeleteAll
    /\ Cardinality(last.objsBefore) > PageSize
    /\ last.err = Nil
    /\ last.calls = <<Call("DeleteAllObjectsInBucket", last.bucket),
                      Call("DeleteBucket", last.bucket)>>
    /\ ~s3[last.bucket].exists

\* C2: a Delete of a Bucket whose BucketDeletionPolicy is DeleteIfEmpty or
\* unset issues DeleteBucket alone, no object request at all, and when
\* DeleteBucket fails Delete returns an error and the bucket keeps its objects.
C2_NoDrainUnlessDeleteAll ==
    (last.op = "Delete" /\ last.policy # DeleteAll) =>
        /\ last.calls = <<Call("DeleteBucket", last.bucket)>>
        /\ last.reqs = << >>
        /\ last.delErr # Nil =>
               /\ last.err # Nil
               /\ s3[last.bucket].exists = last.existedBefore
               /\ s3[last.bucket].objects = last.objsBefore

\* C2 witness: a DeleteIfEmpty Delete of a non-empty bucket failed and left
\* the objects in place
C2_Witness ==
    /\ last.op = "Delete" /\ last.policy = DeleteIfEmpty
    /\ last.objsBefore # {}
    /\ last.delErr = Wrap(ErrBucketNotEmpty, "failed to delete bucket")
    /\ last.err = Wrap(last.delErr, "cannot delete bucket")
    /\ s3[last.bucket].objects = last.objsBefore


\* The error code of a provider answer: the text before the first ": " of
\* its rendering (the whole text of a bare error)
ErrorCode(err) == IF err = Nil THEN "" ELSE err[1]

IsNotFoundAnswer(err) == ErrorCode(err) \in {"NotFound", "NoSuchBucket"}

\* C9: BucketExists returns (false, no error) whenever the provider's answer
\* is a NotFound / NoSuchBucket error, (true, no error) when the head request
\* succeeds, and an error for every other failure.
C9_BucketExistsTotal ==
    last.op = "BucketExists" =>
        /\ IsNotFoundAnswer(last.answer) => (last.err = Nil /\ ~last.exists)
        /\ last.answer = Nil => (last.err = Nil /\ last.exists)
        /\ (last.answer # Nil /\ ~IsNotFoundAnswer(last.answer)) => last.err # Nil

-----------------------------------------------------------------------------
(* internal/clients: the bucket-policy operations of BackblazeClient *)

\* What GetBucketPolicy may answer for bucket b
GetPolicyAnswers(st, b) ==
    IF ~st[b].exists
    THEN {[err |-> ErrNoSuchBucketSdk, policy |-> NoPolicy],
          [err |-> ErrTransient, policy |-> NoPolicy]}
    ELSE IF st[b].policy = NoPolicy
    THEN {[err |-> ErrNoSuchPolicySdk, policy |-> NoPolicy],
          [err |-> BareError("NoSuchBucketPolicy"), policy |-> NoPolicy],
          [err |-> Nil, policy |-> NoPolicy],
          [err |-> ErrTransient, policy |-> NoPolicy]}
    ELSE {[err |-> Nil, policy |-> st[b].policy],
          [err |-> ErrTransient, policy |-> NoPolicy]}

\* What DeleteBucketPolicy may answer for bucket b
DeletePolicyAnswers(st, b) ==
    IF ~st[b].exists
    THEN {ErrNoSuchBucketSdk, BareError("NoSuchBucket"), ErrTransient}
    ELSE IF st[b].policy = NoPolicy
    THEN {ErrNoSuchPolicySdk, BareError("NoSuchBucketPolicy"), Nil, ErrTransient}
    ELSE {Nil, ErrTransient}

\* What PutBucketPolicy answers for bucket b
PutPolicyAnswer(st, b, transient) ==
    IF transient THEN ErrTransient
    ELSE IF ~st[b].exists THEN ErrNoSuchBucketSdk
    ELSE Nil

GetBucketPolicy(ans) ==
    IF ans.err # Nil
    THEN IF isNotFoundError(ans.err) \/ ans.err = BareError("NoSuchBucketPolicy")
         THEN [policy |-> JEmpty, err |-> NewError("bucket policy not found")]
         ELSE [policy |-> JEmpty, err |-> Wrap(ans.err, "failed to get bucket policy")]
    ELSE IF ans.policy = NoPolicy
    THEN [policy |-> JEmpty, err |-> NewError("bucket policy not found")]
    ELSE [policy |-> ans.policy, err |-> Nil]

PutBucketPolicy(st, b, policy, transient) ==
    LET ans == PutPolicyAnswer(st, b, transient)
    IN IF ans # Nil
       THEN [err |-> Wrap(ans, "failed to put bucket policy"), s3 |-> st]
       ELSE [err |-> Nil, s3 |-> [st EXCEPT ![b].policy = policy]]

DeleteBucketPolicy(st, b, ans) ==
    IF ans # Nil
    THEN IF isNotFoundError(ans) \/ ans = BareError("NoSuchBucketPolicy")
         THEN [err |-> NewError("bucket policy not found"), s3 |-> st]
         ELSE [err |-> Wrap(ans, "failed to delete bucket policy"), s3 |-> st]
    ELSE [err |-> Nil, s3 |-> [st EXCEPT ![b].policy = NoPolicy]]

-----------------------------------------------------------------------------
(* internal/controller/policy: the v1beta1 external client *)

ArnPrefix == <<"a", "r", "n", ":", "a", "w", "s", ":", "s", "3", ":", ":", ":">>
ArnPrefixLen == 13

extractBucketFromARN_WholeRest(arn) ==
    IF Len(arn) > ArnPrefixLen /\ SubSeq(arn, 1, ArnPrefixLen) = ArnPrefix
    THEN SubSeq(arn, ArnPrefixLen + 1, Len(arn))
    ELSE EmptyStr

\* external.extractBucketFromARN
extractBucketFromARN(arn) ==
    IF Len(arn) > ArnPrefixLen /\ SubSeq(arn, 1, ArnPrefixLen) = ArnPrefix
    THEN LET bucketPart == SubSeq(arn, ArnPrefixLen + 1, Len(arn))
             slashes == {i \in DOMAIN bucketPart : bucketPart[i] = "/"}
         IN IF slashes # {}
            THEN SubSeq(bucketPart, 1,
                        (CHOOSE i \in slashes : \A j \in slashes : i <= j) - 1)
            ELSE bucketPart
    ELSE EmptyStr

\* map lookup: the value of key k, nil when absent
Lookup(m, k) == IF k \in DOMAIN m.f THEN m.f[k] ELSE GoNil

getBucketNameFromPolicyV1Beta1_ArrayOnly(cr) ==
    IF cr.allowBucket # EmptyStr
    THEN [name |-> cr.allowBucket, err |-> Nil]
    ELSE IF cr.rawPolicy # JEmpty
    THEN LET u == Unmarshal(cr.rawPolicy)
             statements == Lookup(u.v, "Statement")
             firstStatement == statements.e[1]
             resources == Lookup(firstStatement, "Resource")
             bucketName ==
                 IF resources.t = "arr" /\ Len(resources.e) > 0
                    /\ resources.e[1].t = "str"
                 THEN extractBucketFromARN(resources.e[1].s)
                 ELSE EmptyStr
         IN IF u.err # Nil
            THEN [name |-> EmptyStr, err |-> Wrap(u.err, "invalid JSON in rawPolicy")]
            ELSE IF statements.t # "arr" \/ Len(statements.e) = 0
            THEN [name |-> EmptyStr, err |-> NewError("no statements found in policy")]
            ELSE IF firstStatement.t # "obj"
            THEN [name |-> EmptyStr, err |-> NewError("invalid statement format")]
            ELSE IF "Resource" \notin DOMAIN firstStatement.f
            THEN [name |-> EmptyStr,
                  err |-> NewError("no Resource found in policy statement")]
            ELSE IF bucketName = EmptyStr
            THEN [name |-> EmptyStr,
                  err |-> NewError("could not extract bucket name from policy Resource ARN")]
            ELSE [name |-> bucketName, err |-> Nil]
    ELSE [name |-> EmptyStr,
          err |-> NewError("either allowBucket or rawPolicy must be specified")]

\* external.getBucketNameFromPolicyV1Beta1
getBucketNameFromPolicyV1Beta1(cr) ==
    IF cr.allowBucket # EmptyStr
    THEN [name |-> cr.allowBucket, err |-> Nil]
    ELSE IF cr.rawPolicy # JEmpty
    THEN LET u == Unmarshal(cr.rawPolicy)
             statements == Lookup(u.v, "Statement")
             firstStatement == statements.e[1]
             resources == Lookup(firstStatement, "Resource")
             bucketName ==
                 CASE resources.t = "str" -> extractBucketFromARN(resources.s)
                   [] resources.t = "arr" ->
                         IF Len(resources.e) > 0 /\ resources.e[1].t = "str"
                         THEN extractBucketFromARN(resources.e[1].s)
                         ELSE EmptyStr
                   [] OTHER -> EmptyStr
         IN IF u.err # Nil
            THEN [name |-> EmptyStr, err |-> Wrap(u.err, "invalid JSON in rawPolicy")]
            ELSE IF statements.t # "arr" \/ Len(statements.e) = 0
            THEN [name |-> EmptyStr, err |-> NewError("no statements found in policy")]
            ELSE IF firstStatement.t # "obj"
            THEN [name |-> EmptyStr, err |-> NewError("invalid statement format")]
            ELSE IF "Resource" \notin DOMAIN firstStatement.f
            THEN [name |-> EmptyStr,
                  err |-> NewError("no Resource found in policy statement")]
            ELSE IF bucketName = EmptyStr
            THEN [name |-> EmptyStr,
                  err |-> NewError("could not extract bucket name from policy Resource ARN")]
            ELSE [name |-> bucketName, err |-> Nil]
    ELSE [name |-> EmptyStr,
          err |-> NewError("either allowBucket or rawPolicy must be specified")]

Chars_2012_10_17 == <<"2", "0", "1", "2", "-", "1", "0", "-", "1", "7">>
Chars_Allow == <<"A", "l", "l", "o", "w">>
Chars_S3All == <<"s", "3", ":", "*">>
Chars_Star == <<"*">>

generatePolicyDocumentV1Beta1_Unvalidated(cr) ==
    IF cr.rawPolicy # JEmpty
    THEN [doc |-> cr.rawPolicy, err |-> Nil]
    ELSE [doc |-> JEmpty,
          err |-> NewError("either allowBucket or rawPolicy must be specified")]

\* The generator with a document that names the objects of the bucket only
generatePolicyDocumentV1Beta1_ObjectsOnly(cr) ==
    IF cr.rawPolicy # JEmpty
    THEN LET u == Unmarshal(cr.rawPolicy)
         IN IF u.err # Nil
            THEN [doc |-> JEmpty, err |-> Wrap(u.err, "rawPolicy is not valid JSON")]
            ELSE [doc |-> cr.rawPolicy, err |-> Nil]
    ELSE IF cr.allowBucket # EmptyStr
    THEN LET policy ==
                 GoMap([k \in {"Version", "Statement"} |->
                     IF k = "Version" THEN GoString(Chars_2012_10_17)
                     ELSE GoSlice(<<GoMap(
                         [j \in {"Effect", "Principal", "Action", "Resource"} |->
                             CASE j = "Effect" -> GoString(Chars_Allow)
                               [] j = "Principal" ->
                                     GoMap([a \in {"AWS"} |-> GoString(Chars_Star)])
                               [] j = "Action" -> GoString(Chars_S3All)
                               [] OTHER ->
                                     GoSlice(<<GoString(ArnPrefix \o cr.allowBucket
                                                        \o <<"/", "*">>)>>)])>>)])
         IN [doc |-> Marshal(policy), err |-> Nil]
    ELSE [doc |-> JEmpty,
          err |-> NewError("either allowBucket or rawPolicy must be specified")]

\* external.generatePolicyDocumentV1Beta1
generatePolicyDocumentV1Beta1(cr) ==
    IF cr.rawPolicy # JEmpty
    THEN LET u == Unmarshal(cr.rawPolicy)
         IN IF u.err # Nil
            THEN [doc |-> JEmpty, err |-> Wrap(u.err, "rawPolicy is not valid JSON")]
            ELSE [doc |-> cr.rawPolicy, err |-> Nil]
    ELSE IF cr.allowBucket # EmptyStr
    THEN LET policy ==
                 GoMap([k \in {"Version", "Statement"} |->
                     IF k = "Version" THEN GoString(Chars_2012_10_17)
                     ELSE GoSlice(<<GoMap(
                         [j \in {"Effect", "Principal", "Action", "Resource"} |->
                             CASE j = "Effect" -> GoString(Chars_Allow)
                               [] j = "Principal" ->
                                     GoMap([a \in {"AWS"} |-> GoString(Chars_Star)])
                               [] j = "Action" -> GoString(Chars_S3All)
                               [] OTHER ->
                                     GoSlice(<<GoString(ArnPrefix \o cr.allowBucket),
                                               GoString(ArnPrefix \o cr.allowBucket
                                                        \o <<"/", "*">>)>>)])>>)])
         IN [doc |-> Marshal(policy), err |-> Nil]
    ELSE [doc |-> JEmpty,
          err |-> NewError("either allowBucket or rawPolicy must be specified")]

\* external.getPolicyNameV1Beta1
getPolicyNameV1Beta1(cr) ==
    IF cr.policyName # EmptyStr THEN cr.policyName ELSE cr.name

\* Equality of decoded values that takes a slice as a collection without order
RECURSIVE EqualAnyOrder(_, _)
EqualAnyOrder(v, w) ==
    /\ v.t = w.t
    /\ CASE v.t = "str" -> v.s = w.s
         [] v.t = "arr" ->
               /\ Len(v.e) = Len(w.e)
               /\ \E p \in [DOMAIN v.e -> DOMAIN w.e] :
                      /\ \A i, j \in DOMAIN v.e : p[i] = p[j] => i = j
                      /\ \A i \in DOMAIN v.e : EqualAnyOrder(v.e[i], w.e[p[i]])
         [] v.t = "obj" ->
               /\ DOMAIN v.f = DOMAIN w.f
               /\ \A k \in DOMAIN v.f : EqualAnyOrder(v.f[k], w.f[k])
         [] OTHER -> TRUE

isPolicyUpToDate_AnyOrder(current, desired) ==
    LET c == Unmarshal(current)
        d == Unmarshal(desired)
    IN IF c.err # Nil THEN FALSE
       ELSE IF d.err # Nil THEN FALSE
       ELSE EqualAnyOrder(c.v, d.v)

isPolicyUpToDate_Bytes(current, desired) ==
    LET c == Unmarshal(current)
        d == Unmarshal(desired)
    IN IF c.err # Nil THEN FALSE
       ELSE IF d.err # Nil THEN FALSE
       ELSE current = desired

isPolicyUpToDate_Different(current, desired) ==
    LET c == Unmarshal(current)
        d == Unmarshal(desired)
    IN IF c.err # Nil THEN FALSE
       ELSE IF d.err # Nil THEN FALSE
       ELSE Marshal(c.v) # Marshal(d.v)

\* external.isPolicyUpToDate
isPolicyUpToDate(current, desired) ==
    LET c == Unmarshal(current)
        d == Unmarshal(desired)
    IN IF c.err # Nil THEN FALSE
       ELSE IF d.err # Nil THEN FALSE
       ELSE Marshal(c.v) = Marshal(d.v)

\* What an external operation on a Policy returns
PolicyResult(err, exists, upToDate, cr, st, calls, doc) ==
    [err |-> err, exists |-> exists, upToDate |-> upToDate, cr |-> cr,
     s3 |-> st, calls |-> calls, doc |-> doc]

\* external.Observe
PolicyObserve(cr, st, headAns, getAns) ==
    LET n == getBucketNameFromPolicyV1Beta1(cr)
        ex == BucketExists(headAns)
        g == GetBucketPolicy(getAns)
        gen == generatePolicyDocumentV1Beta1(cr)
        head == <<Call("BucketExists", n.name)>>
        both == <<Call("BucketExists", n.name), Call("GetBucketPolicy", n.name)>>
    IN IF n.err # Nil
       THEN PolicyResult(Wrap(n.err, "invalid policy configuration"),
                         FALSE, FALSE, cr, st, << >>, JEmpty)
       ELSE IF ex.err # Nil
       THEN PolicyResult(Wrap(ex.err, "cannot observe bucket policy"),
                         FALSE, FALSE, cr, st, head, JEmpty)
       ELSE IF ~ex.exists
       THEN PolicyResult(Nil, FALSE, FALSE, cr, st, head, JEmpty)
       ELSE IF g.err # Nil
       THEN IF g.err = <<"NoSuchBucketPolicy">> \/ g.err = <<"bucket policy not found">>
            THEN PolicyResult(Nil, FALSE, FALSE, cr, st, both, JEmpty)
            ELSE PolicyResult(Wrap(g.err, "cannot observe bucket policy"),
                              FALSE, FALSE, cr, st, both, JEmpty)
       ELSE IF gen.err # Nil
       THEN PolicyResult(Wrap(gen.err, "cannot generate policy document"),
                         FALSE, FALSE, cr, st, both, JEmpty)
       ELSE PolicyResult(Nil, TRUE, isPolicyUpToDate(g.policy, gen.doc),
                         [cr EXCEPT !.statusPolicyName = getPolicyNameV1Beta1(cr),
                                    !.statusPolicy = g.policy,
                                    !.extName = IF cr.extName = EmptyStr
                                                THEN n.name ELSE cr.extName],
                         st, both, gen.doc)

\* external.Create
PolicyCreate(cr, st, transient) ==
    LET n == getBucketNameFromPolicyV1Beta1(cr)
        gen == generatePolicyDocumentV1Beta1(cr)
        put == PutBucketPolicy(st, n.name, gen.doc, transient)
    IN IF n.err # Nil
       THEN PolicyResult(Wrap(n.err, "invalid policy configuration"),
                         FALSE, FALSE, cr, st, << >>, JEmpty)
       ELSE IF gen.err # Nil
       THEN PolicyResult(Wrap(gen.err, "cannot generate policy document"),
                         FALSE, FALSE, cr, st, << >>, JEmpty)
       ELSE IF put.err # Nil
       THEN PolicyResult(Wrap(put.err, "cannot create bucket policy"),
                         FALSE, FALSE, cr, put.s3,
                         <<Call("PutBucketPolicy", n.name)>>, gen.doc)
       ELSE PolicyResult(Nil, FALSE, FALSE, [cr EXCEPT !.extName = n.name],
                         put.s3, <<Call("PutBucketPolicy", n.name)>>, gen.doc)

\* external.Update
\* An Update that leaves the bucket's policy as it is
PolicyUpdate_NoPut(cr, st, transient) ==
    LET n == getBucketNameFromPolicyV1Beta1(cr)
        gen == generatePolicyDocumentV1Beta1(cr)
    IN IF n.err # Nil
       THEN PolicyResult(Wrap(n.err, "invalid policy configuration"),
                         FALSE, FALSE, cr, st, << >>, JEmpty)
       ELSE IF gen.err # Nil
       THEN PolicyResult(Wrap(gen.err, "cannot generate policy document"),
                         FALSE, FALSE, cr, st, << >>, JEmpty)
       ELSE PolicyResult(Nil, FALSE, FALSE, cr, st, << >>, gen.doc)

PolicyUpdate(cr, st, transient) ==
    LET n == getBucketNameFromPolicyV1Beta1(cr)
        gen == generatePolicyDocumentV1Beta1(cr)
        put == PutBucketPolicy(st, n.name, gen.doc, transient)
    IN IF n.err # Nil
       THEN PolicyResult(Wrap(n.err, "invalid policy configuration"),
                         FALSE, FALSE, cr, st, << >>, JEmpty)
       ELSE IF gen.err # Nil
       THEN PolicyResult(Wrap(gen.err, "cannot generate policy document"),
                         FALSE, FALSE, cr, st, << >>, JEmpty)
       ELSE IF put.err # Nil
       THEN PolicyResult(Wrap(put.err, "cannot create bucket policy"),
                         FALSE, FALSE, cr, put.s3,
                         <<Call("PutBucketPolicy", n.name)>>, gen.doc)
       ELSE PolicyResult(Nil, FALSE, FALSE, cr, put.s3,
                         <<Call("PutBucketPolicy", n.name)>>, gen.doc)

\* external.Delete
PolicyDelete(cr, st, ans) ==
    LET n == getBucketNameFromPolicyV1Beta1(cr)
        del == DeleteBucketPolicy(st, n.name, ans)
        calls == <<Call("DeleteBucketPolicy", n.name)>>
    IN IF n.err # Nil
       THEN PolicyResult(Wrap(n.err, "invalid policy configuration"),
                         FALSE, FALSE, cr, st, << >>, JEmpty)
       ELSE IF del.err # Nil /\ del.err # <<"NoSuchBucketPolicy">>
                             /\ del.err # <<"bucket policy not found">>
       THEN PolicyResult(Wrap(del.err, "cannot delete bucket policy"),
                         FALSE, FALSE, cr, del.s3, calls, JEmpty)
       ELSE PolicyResult(Nil, FALSE, FALSE, cr, del.s3, calls, JEmpty)

-----------------------------------------------------------------------------
(* The Policy resources and the steps of their external client *)

Arn(b) == ArnPrefix \o b
ArnAll(b) == ArnPrefix \o b \o <<"/", "*">>

\* A statement allowing everything on the resources res, keys in the order
\* policy documents are usually written
AllowStatement(res) ==
    JObj(<<Member("Effect", JStr(Chars_Allow)),
           Member("Principal", JObj(<<Member("AWS", JStr(Chars_Star))>>)),
           Member("Action", JStr(Chars_S3All)),
           Member("Resource", res)>>)

PolicyText(statements) ==
    Spaced(JObj(<<Member("Version", JStr(Chars_2012_10_17)),
                  Member("Statement", JArr(statements))>>))

RawAllowB == PolicyText(<<AllowStatement(JArr(<<JStr(Arn(NameB)), JStr(ArnAll(NameB))>>))>>)
RawAllowBReversed == PolicyText(<<AllowStatement(JArr(<<JStr(ArnAll(NameB)), JStr(Arn(NameB))>>))>>)
RawAllowA == PolicyText(<<AllowStatement(JStr(ArnAll(NameA)))>>)
RawNoStatement == JObj(<<Member("Version", JStr(Chars_2012_10_17))>>)
RawArray == JArr(<<AllowStatement(JStr(Arn(NameA)))>>)

RawNoResource ==
    PolicyText(<<JObj(<<Member("Effect", JStr(Chars_Allow)),
                        Member("Action", JStr(Chars_S3All))>>)>>)
RawForeignResource == PolicyText(<<AllowStatement(JStr(<<"a", "r", "n", ":", "x">>))>>)
RawStringStatement == PolicyText(<<JStr(Chars_Allow)>>)

RawPolicies == {JEmpty, JBad, RawAllowB, RawAllowBReversed, RawAllowA,
                RawNoStatement, RawArray, RawNoResource, RawForeignResource,
                RawStringStatement}

PolicyCRs ==
    [name : {<<"p">>}, allowBucket : {EmptyStr, NameB}, rawPolicy : RawPolicies,
     policyName : {EmptyStr}, extName : {EmptyStr},
     statusPolicyName : {EmptyStr}, statusPolicy : {JEmpty}]

\* RawAllowB with the members of its statement written in another order
RawAllowBReordered ==
    JObj(<<Member("Statement", JArr(<<
               JObj(<<Member("Resource", JArr(<<JStr(Arn(NameB)), JStr(ArnAll(NameB))>>)),
                      Member("Action", JStr(Chars_S3All)),
                      Member("Principal", JObj(<<Member("AWS", JStr(Chars_Star))>>)),
                      Member("Effect", JStr(Chars_Allow))>>)>>)),
           Member("Version", JStr(Chars_2012_10_17))>>)

\* The policy somebody else may store on a bucket
StoredPolicies == {RawAllowBReversed, RawAllowBReordered}

ExistingBucket(p) ==
    [exists |-> TRUE, objects |-> {}, region |-> "us-west-001",
     btype |-> "allPrivate", policy |-> p]

PolicyInit ==
    /\ s3 \in [BucketNames -> {NoBucket, ExistingBucket(NoPolicy), ExistingBucket(RawAllowA)}]
    /\ s3[NameA].policy = NoPolicy
    /\ client = CHOOSE cl \in Clients : cl.Region = "us-west-001"
    /\ bucketCR = CHOOSE cr \in BucketCRs : TRUE
    /\ userCR = NoUserCR
    /\ b2 = NoKeys
    /\ kube = NoSecret
    /\ now = 0
    /\ policyCR \in PolicyCRs
    /\ last = Idle

\* The bucket a Policy operation addresses
PolicyBucket(cr) == getBucketNameFromPolicyV1Beta1(cr).name
PolicyBucketState(st, cr) ==
    IF PolicyBucket(cr) \in BucketNames THEN st[PolicyBucket(cr)] ELSE NoBucket

PolicyLast(op, r, headAns, getAns) ==
    [Idle EXCEPT !.op = op, !.bucket = PolicyBucket(policyCR),
                 !.answer = IF r.calls # << >> THEN headAns ELSE Nil,
                 !.getAnswer = IF Len(r.calls) > 1 THEN getAns ELSE Nil,
                 !.err = r.err, !.exists = r.exists, !.upToDate = r.upToDate,
                 !.calls = r.calls, !.doc = r.doc,
                 !.polBefore = PolicyBucketState(s3, policyCR).policy,
                 !.existedBefore = PolicyBucketState(s3, policyCR).exists,
                 !.afterCreate = IF last.op = "Create" /\ last.err = Nil
                                 THEN IF last.polBefore = NoPolicy
                                      THEN "fresh" ELSE "replaced"
                                 ELSE "",
                 !.afterUpdate = IF last.op = "Update" /\ last.err = Nil
                                 THEN IF last.polBefore # last.doc
                                      THEN "changed" ELSE "same"
                                 ELSE ""]

DoPolicyObserve ==
    LET b == PolicyBucket(policyCR)
        st == [x \in BucketNames \cup {b} |-> IF x \in BucketNames THEN s3[x] ELSE NoBucket]
    IN \E headAns \in HeadAnswers(st, b), getAns \in GetPolicyAnswers(st, b) :
        LET r == PolicyObserve(policyCR, s3, headAns, getAns)
        IN /\ policyCR' = r.cr
           /\ last' = PolicyLast("Observe", r, headAns, getAns.err)
           /\ UNCHANGED s3
           /\ UNCHANGED nonPolicyVars

DoPolicyCreate ==
    \E transient \in BOOLEAN :
        LET r == PolicyCreate(policyCR, s3, transient)
        IN /\ policyCR' = r.cr
           /\ s3' = r.s3
           /\ last' = PolicyLast("Create", r, Nil, Nil)
           /\ UNCHANGED nonPolicyVars

DoPolicyUpdate ==
    \E transient \in BOOLEAN :
        LET r == PolicyUpdate(policyCR, s3, transient)
        IN /\ policyCR' = r.cr
           /\ s3' = r.s3
           /\ last' = PolicyLast("Update", r, Nil, Nil)
           /\ UNCHANGED nonPolicyVars

DoPolicyDelete ==
    LET b == PolicyBucket(policyCR)
        st == [x \in BucketNames \cup {b} |-> IF x \in BucketNames THEN s3[x] ELSE NoBucket]
    IN \E ans \in DeletePolicyAnswers(st, b) :
        LET r == PolicyDelete(policyCR, s3, ans)
        IN /\ policyCR' = r.cr
           /\ s3' = r.s3
           /\ last' = PolicyLast("Delete", r, ans, Nil)
           /\ UNCHANGED nonPolicyVars

\* Somebody else stores a policy on an existing bucket
EnvPutPolicy ==
    \E b \in BucketNames, p \in StoredPolicies :
        /\ s3[b].exists
        /\ s3[b].policy # p
        /\ s3' = [s3 EXCEPT ![b].policy = p]
        /\ last' = Idle
        /\ UNCHANGED policyCR
        /\ UNCHANGED nonPolicyVars

PolicyNext ==
    \/ DoPolicyObserve
    \/ DoPolicyCreate
    \/ DoPolicyUpdate
    \/ DoPolicyDelete
    \/ EnvPutPolicy

SpecPolicy == PolicyInit /\ [][PolicyNext]_vars

-----------------------------------------------------------------------------
(* Properties of the Policy external client *)

BothSet(cr) == cr.allowBucket # EmptyStr /\ cr.rawPolicy # JEmpty
NeitherSet(cr) == cr.allowBucket = EmptyStr /\ cr.rawPolicy = JEmpty

\* C3: exactly one of AllowBucket and RawPolicy must be set: Create on a
\* Policy with both set, or with neither set, returns a validation error and
\* makes no PutBucketPolicy call.
C3_ExactlyOneOfAllowBucketRawPolicy ==
    (last.op = "Create" /\ (BothSet(policyCR) \/ NeitherSet(policyCR))) =>
        /\ last.err # Nil
        /\ ~HasCall(last.calls, "PutBucketPolicy")

\* C4: for a Policy with AllowBucket set and no bucket policy on an existing
\* bucket, the Observe that follows a successful Create (the provider stored
\* the document it was given and answers the two reads) reports
\* ResourceExists = true and ResourceUpToDate = true, without error.
C4_ObserveAfterCreateUpToDate ==
    (/\ last.op = "Observe"
     /\ last.afterCreate = "fresh"
     /\ policyCR.allowBucket # EmptyStr
     /\ last.answer = Nil /\ last.getAnswer = Nil) =>
        /\ last.err = Nil
        /\ last.exists
        /\ last.upToDate

C4_Witness ==
    /\ last.op = "Observe"
    /\ last.afterCreate = "fresh"
    /\ policyCR.allowBucket = NameB /\ policyCR.rawPolicy = JEmpty
    /\ last.calls = <<Call("BucketExists", NameB), Call("GetBucketPolicy", NameB)>>
    /\ s3[NameB].policy = generatePolicyDocumentV1Beta1(policyCR).doc
    /\ last.err = Nil /\ last.exists /\ last.upToDate

\* The error texts that contain "not valid JSON"
MatchesNotValidJSON(err) ==
    \E i \in DOMAIN err : err[i] \in {"rawPolicy is not valid JSON"}

\* C5 as stated: Create on a Policy whose RawPolicy is not valid JSON returns
\* an error whose message matches "not valid JSON" and makes no provider call.
C5_InvalidJSONNotValidMessage ==
    (last.op = "Create" /\ policyCR.rawPolicy = JBad) =>
        /\ MatchesNotValidJSON(last.err)
        /\ last.calls = << >>

\* C5: Create on a Policy whose RawPolicy is not valid JSON makes no provider
\* call and returns the decoder's error, wrapped as "invalid policy
\* configuration: invalid JSON in rawPolicy" when AllowBucket is unset and as
\* "cannot generate policy document: rawPolicy is not valid JSON" when
\* AllowBucket is set as well.
C5_InvalidJSONRejected ==
    (last.op = "Create" /\ policyCR.rawPolicy = JBad) =>
        /\ last.calls = << >>
        /\ last.err =
              IF policyCR.allowBucket = EmptyStr
              THEN Wrap(Wrap(Unmarshal(JBad).err, "invalid JSON in rawPolicy"),
                        "invalid policy configuration")
              ELSE Wrap(Wrap(Unmarshal(JBad).err, "rawPolicy is not valid JSON"),
                        "cannot generate policy document")

C5_Witness ==
    /\ last.op = "Create"
    /\ policyCR.rawPolicy = JBad /\ policyCR.allowBucket = EmptyStr
    /\ last.err[2] = "invalid JSON in rawPolicy"
    /\ last.calls = << >>

\* C6: Policy Delete is idempotent: when the provider answers "no such
\* policy", Delete returns success; every other DeleteBucketPolicy failure is
\* returned as an error.
C6_DeleteIdempotent ==
    (last.op = "Delete" /\ HasCall(last.calls, "DeleteBucketPolicy")) =>
        /\ ErrorCode(last.answer) = "NoSuchBucketPolicy" => last.err = Nil
        /\ (last.answer # Nil /\ ErrorCode(last.answer) # "NoSuchBucketPolicy")
               => last.err # Nil

-----------------------------------------------------------------------------
(* The provider's native B2 side: the application keys of the account *)

MaxKeys == 3        \* application keys the account ever issues
KeyPageSize == 2    \* keys one b2_list_keys page holds
MaxHours == 24      \* the clock stops here
TickHours == 8      \* one step of the clock
TokenLifetimeHours == 12

Digits == <<"1", "2", "3", "4", "5", "6", "7", "8", "9">>
KeyID(n) == <<"K", Digits[n]>>
KeySecret(n) == <<"S", Digits[n]>>
KeyNumbers == 1..MaxKeys

\* The key the account issues as its n-th for a b2_create_key request
NewKey(n, req) ==
    [n |-> n, applicationKeyId |-> KeyID(n), applicationKey |-> KeySecret(n),
     keyName |-> req.keyName, capabilities |-> req.capabilities,
     bucketId |-> req.bucketId, namePrefix |-> req.namePrefix]

\* A nil *B2CreateKeyResponse
NoKey == [n |-> 0, applicationKeyId |-> EmptyStr, applicationKey |-> EmptyStr,
          keyName |-> EmptyStr, capabilities |-> << >>,
          bucketId |-> EmptyStr, namePrefix |-> EmptyStr]

\* An HTTP exchange: the transport failed, or a response with status and body
HttpFailed == [fail |-> TRUE, status |-> 0, body |-> ""]
HttpResponse(status, body) == [fail |-> FALSE, status |-> status, body |-> body]
HttpOK == HttpResponse(200, "")

ErrTransport == NewError("dial tcp: connection refused")
StatusError(what, resp) ==
    <<what \o " failed with status " \o ToString(resp.status), resp.body>>

AuthorizeAnswers == {HttpOK, HttpResponse(401, "unauthorized"), HttpFailed}

CreateKeyAnswers == {HttpOK, HttpResponse(500, "internal_error"), HttpFailed}

\* b2_delete_key of a key the account does not have is a bad request
DeleteKeyAnswers(st, id) ==
    IF \E k \in st.keys : k.applicationKeyId = id
    THEN {HttpOK, HttpResponse(500, "internal_error"), HttpFailed}
    ELSE {HttpResponse(400, "bad_request"), HttpFailed}

ListKeysAnswers == {HttpOK, HttpResponse(500, "internal_error"), HttpFailed}

\* One page of b2_list_keys: the KeyPageSize first keys from start on, and the
\* id of the key the next page starts with ("" on the last page)
KeysPage(st, start) ==
    LET from == IF start = EmptyStr THEN 1
                ELSE CHOOSE n \in 1..9 : KeyID(n) = start
        rest == {k \in st.keys : k.n >= from}
        page == {k \in rest : Cardinality({j \in rest : j.n < k.n}) < KeyPageSize}
        after == rest \ page
    IN [keys |-> page,
        nextApplicationKeyId |->
            IF after = {} THEN EmptyStr
            ELSE (CHOOSE k \in after : \A j \in after : k.n <= j.n).applicationKeyId]

-----------------------------------------------------------------------------
(* internal/clients: the application-key operations of BackblazeClient *)

\* authorizeAccount that takes any token it holds for valid
authorizeAccount_NoExpiry(cl, t, auth) ==
    IF cl.AuthToken # ""
    THEN [err |-> Nil, cl |-> cl, reqs |-> << >>]
    ELSE IF auth.fail
    THEN [err |-> Wrap(ErrTransport, "failed to execute HTTP request"),
          cl |-> cl, reqs |-> <<"b2_authorize_account">>]
    ELSE IF auth.status # 200
    THEN [err |-> StatusError("authorize account", auth),
          cl |-> cl, reqs |-> <<"b2_authorize_account">>]
    ELSE [err |-> Nil,
          cl |-> [cl EXCEPT !.AuthToken = "token", !.AccountID = "account",
                            !.tokenExpiration = t + TokenLifetimeHours],
          reqs |-> <<"b2_authorize_account">>]

\* BackblazeClient.authorizeAccount at time t, auth being the provider's
\* answer should a request be sent
authorizeAccount(cl, t, auth) ==
    IF cl.AuthToken # "" /\ t < cl.tokenExpiration
    THEN [err |-> Nil, cl |-> cl, reqs |-> << >>]
    ELSE IF auth.fail
    THEN [err |-> Wrap(ErrTransport, "failed to execute HTTP request"),
          cl |-> cl, reqs |-> <<"b2_authorize_account">>]
    ELSE IF auth.status # 200
    THEN [err |-> StatusError("authorize account", auth),
          cl |-> cl, reqs |-> <<"b2_authorize_account">>]
    ELSE [err |-> Nil,
          cl |-> [cl EXCEPT !.AuthToken = "token", !.AccountID = "account",
                            !.tokenExpiration = t + TokenLifetimeHours],
          reqs |-> <<"b2_authorize_account">>]

\* BackblazeClient.CreateApplicationKey
CreateApplicationKey(cl, t, st, req, auth, ans) ==
    LET a == authorizeAccount(cl, t, auth)
        key == NewKey(st.next, req)
        sent == a.reqs \o <<"b2_create_key">>
    IN IF a.err # Nil
       THEN [key |-> NoKey, err |-> Wrap(a.err, "failed to authorize account"),
             cl |-> a.cl, b2 |-> st, reqs |-> a.reqs]
       ELSE IF ans.fail
       THEN [key |-> NoKey, err |-> Wrap(ErrTransport, "failed to execute HTTP request"),
             cl |-> a.cl, b2 |-> st, reqs |-> sent]
       ELSE IF ans.status # 200
       THEN [key |-> NoKey, err |-> StatusError("create key", ans),
             cl |-> a.cl, b2 |-> st, reqs |-> sent]
       ELSE [key |-> key, err |-> Nil, cl |-> a.cl,
             b2 |-> [keys |-> st.keys \cup {key}, next |-> st.next + 1],
             reqs |-> sent]

\* BackblazeClient.DeleteApplicationKey
DeleteApplicationKey(cl, t, st, applicationKeyID, auth, ans) ==
    LET a == authorizeAccount(cl, t, auth)
        sent == a.reqs \o <<"b2_delete_key">>
    IN IF a.err # Nil
       THEN [err |-> Wrap(a.err, "failed to authorize account"),
             cl |-> a.cl, b2 |-> st, reqs |-> a.reqs]
       ELSE IF ans.fail
       THEN [err |-> Wrap(ErrTransport, "failed to execute HTTP request"),
             cl |-> a.cl, b2 |-> st, reqs |-> sent]
       ELSE IF ans.status # 200
       THEN [err |-> StatusError("delete key", ans),
             cl |-> a.cl, b2 |-> st, reqs |-> sent]
       ELSE [err |-> Nil, cl |-> a.cl,
             b2 |-> [st EXCEPT !.keys =
                        {k \in @ : k.applicationKeyId # applicationKeyID}],
             reqs |-> sent]

\* The loop of BackblazeClient.GetApplicationKey: one b2_list_keys request per
\* page from start on; failAt is the request that fails (0: none), n counts
\* the requests
\* A lookup that gives up after the first page
ListKeysLoop_FirstPage(st, applicationKeyID, start, n, failAt, ans) ==
    LET page == KeysPage(st, start)
        found == {k \in page.keys : k.applicationKeyId = applicationKeyID}
    IN IF n = failAt /\ ans.fail
       THEN [key |-> NoKey, err |-> Wrap(ErrTransport, "failed to execute HTTP request"),
             n |-> n]
       ELSE IF n = failAt /\ ans.status # 200
       THEN [key |-> NoKey, err |-> StatusError("list keys", ans), n |-> n]
       ELSE IF found # {}
       THEN [key |-> [(CHOOSE k \in found : TRUE) EXCEPT !.applicationKey = EmptyStr],
             err |-> Nil, n |-> n]
       ELSE [key |-> NoKey, err |-> NewError("application key not found"), n |-> n]

RECURSIVE ListKeysLoop(_, _, _, _, _, _)
ListKeysLoop(st, applicationKeyID, start, n, failAt, ans) ==
    LET page == KeysPage(st, start)
        found == {k \in page.keys : k.applicationKeyId = applicationKeyID}
    IN IF n = failAt /\ ans.fail
       THEN [key |-> NoKey, err |-> Wrap(ErrTransport, "failed to execute HTTP request"),
             n |-> n]
       ELSE IF n = failAt /\ ans.status # 200
       THEN [key |-> NoKey, err |-> StatusError("list keys", ans), n |-> n]
       ELSE IF found # {}
       THEN [key |-> [(CHOOSE k \in found : TRUE) EXCEPT !.applicationKey = EmptyStr],
             err |-> Nil, n |-> n]
       ELSE IF page.nextApplicationKeyId = EmptyStr
       THEN [key |-> NoKey, err |-> NewError("application key not found"), n |-> n]
       ELSE ListKeysLoop(st, applicationKeyID, page.nextApplicationKeyId,
                         n + 1, failAt, ans)

\* BackblazeClient.GetApplicationKey
GetApplicationKey(cl, t, st, applicationKeyID, auth, failAt, ans) ==
    LET a == authorizeAccount(cl, t, auth)
        r == ListKeysLoop(st, applicationKeyID, EmptyStr, 1, failAt, ans)
    IN IF a.err # Nil
       THEN [key |-> NoKey, err |-> Wrap(a.err, "failed to authorize account"),
             cl |-> a.cl, reqs |-> a.reqs]
       ELSE [key |-> r.key, err |-> r.err, cl |-> a.cl,
             reqs |-> a.reqs \o [i \in 1..r.n |-> "b2_list_keys"]]

-----------------------------------------------------------------------------
(* internal/controller/user: the v1beta1 external client *)

\* The second loop of equalStringSlices: b from index i on against the counts left
RECURSIVE CountsCover(_, _, _)
CountsCover(counts, b, i) ==
    IF i > Len(b) THEN TRUE
    ELSE IF b[i] \notin DOMAIN counts \/ counts[b[i]] = 0 THEN FALSE
    ELSE CountsCover([counts EXCEPT ![b[i]] = @ - 1], b, i + 1)

\* equalStringSlices
\* A comparison of lengths and of the elements that occur, not of their counts
equalStringSlices_Sets(a, b) ==
    /\ Len(a) = Len(b)
    /\ {a[i] : i \in DOMAIN a} = {b[i] : i \in DOMAIN b}

\* A comparison of the slices position by position
equalStringSlices_Ordered(a, b) == a = b

equalStringSlices(a, b) ==
    IF Len(a) # Len(b) THEN FALSE
    ELSE LET counts == [v \in {a[i] : i \in DOMAIN a} |->
                            Cardinality({i \in DOMAIN a : a[i] = v})]
         IN CountsCover(counts, b, 1)

\* The cluster's answers to Create, Get and Update of the Secret
ErrAlreadyExists == NewError("secrets \"creds\" already exists")
ErrSecretNotFound == NewError("secrets \"creds\" not found")
ErrKube == NewError("Internal error occurred")
NoKubeFailure == [create |-> FALSE, get |-> FALSE, update |-> FALSE]
KubeFailures == [create : BOOLEAN, get : BOOLEAN, update : BOOLEAN]

KubeCreate(k, data, fail) ==
    IF fail THEN [err |-> ErrKube, kube |-> k]
    ELSE IF k.exists THEN [err |-> ErrAlreadyExists, kube |-> k]
    ELSE [err |-> Nil, kube |-> [exists |-> TRUE, data |-> data]]

KubeGet(k, fail) ==
    IF fail THEN [err |-> ErrKube, data |-> << >>]
    ELSE IF ~k.exists THEN [err |-> ErrSecretNotFound, data |-> << >>]
    ELSE [err |-> Nil, data |-> k.data]

KubeUpdate(k, data, fail) ==
    IF fail THEN [err |-> ErrKube, kube |-> k]
    ELSE IF ~k.exists THEN [err |-> ErrSecretNotFound, kube |-> k]
    ELSE [err |-> Nil, kube |-> [exists |-> TRUE, data |-> data]]

SecretData(key) ==
    [applicationKeyId |-> key.applicationKeyId,
     applicationKey |-> key.applicationKey,
     keyName |-> key.keyName]

writeSecretForKeyV1Beta1_KeepExisting(k, key, f) ==
    LET data == SecretData(key)
        c == KubeCreate(k, data, f.create)
        g == KubeGet(k, f.get)
    IN IF c.err # Nil
       THEN IF g.err = Nil
            THEN [err |-> Nil, kube |-> k, calls |-> <<"Create", "Get">>]
            ELSE [err |-> c.err, kube |-> k, calls |-> <<"Create", "Get">>]
       ELSE [err |-> Nil, kube |-> c.kube, calls |-> <<"Create">>]

\* external.writeSecretForKeyV1Beta1
writeSecretForKeyV1Beta1(k, key, f) ==
    LET data == SecretData(key)
        c == KubeCreate(k, data, f.create)
        g == KubeGet(k, f.get)
        u == KubeUpdate(k, data, f.update)
    IN IF c.err # Nil
       THEN IF g.err = Nil
            THEN [err |-> u.err, kube |-> u.kube,
                  calls |-> <<"Create", "Get", "Update">>]
            ELSE [err |-> c.err, kube |-> k, calls |-> <<"Create", "Get">>]
       ELSE [err |-> Nil, kube |-> c.kube, calls |-> <<"Create">>]

UserResult(err, exists, upToDate, cr, cl, st, k, reqs, kcalls, key) ==
    [err |-> err, exists |-> exists, upToDate |-> upToDate, cr |-> cr,
     cl |-> cl, b2 |-> st, kube |-> k, reqs |-> reqs, kcalls |-> kcalls,
     key |-> key]

\* external.Observe
UserObserve(cr, cl, t, st, k, auth, failAt, ans) ==
    LET applicationKeyID == cr.extName
        g == GetApplicationKey(cl, t, st, applicationKeyID, auth, failAt, ans)
        key == g.key
        upToDate == /\ key.keyName = cr.keyName
                    /\ equalStringSlices(key.capabilities, cr.capabilities)
                    /\ key.bucketId = cr.bucketID
                    /\ key.namePrefix = cr.namePrefix
    IN IF applicationKeyID = EmptyStr
       THEN UserResult(Nil, FALSE, FALSE, cr, cl, st, k, << >>, << >>, NoKey)
       ELSE IF g.err # Nil
       THEN IF g.err = <<"application key not found">>
            THEN UserResult(Nil, FALSE, FALSE, cr, g.cl, st, k, g.reqs, << >>, NoKey)
            ELSE UserResult(Wrap(g.err, "cannot observe application key"),
                            FALSE, FALSE, cr, g.cl, st, k, g.reqs, << >>, NoKey)
       ELSE UserResult(Nil, TRUE, upToDate,
                       [cr EXCEPT !.statusKeyID = key.applicationKeyId,
                                  !.statusKeyName = key.keyName,
                                  !.statusCapabilities = key.capabilities],
                       g.cl, st, k, g.reqs, << >>, key)

\* external.Create
UserCreate(cr, cl, t, st, k, auth, ans, f) ==
    LET req == [keyName |-> cr.keyName, capabilities |-> cr.capabilities,
                bucketId |-> cr.bucketID, namePrefix |-> cr.namePrefix]
        c == CreateApplicationKey(cl, t, st, req, auth, ans)
        named == [cr EXCEPT !.extName = c.key.applicationKeyId]
        w == writeSecretForKeyV1Beta1(k, c.key, f)
    IN IF c.err # Nil
       THEN UserResult(Wrap(c.err, "cannot create application key"),
                       FALSE, FALSE, cr, c.cl, c.b2, k, c.reqs, << >>, NoKey)
       ELSE IF w.err # Nil
       THEN UserResult(Wrap(w.err, "cannot write secret"),
                       FALSE, FALSE, named, c.cl, c.b2, w.kube, c.reqs, w.calls, c.key)
       ELSE UserResult(Nil, FALSE, FALSE, named, c.cl, c.b2, w.kube, c.reqs,
                       w.calls, c.key)

\* external.Update
UserUpdate(cr, cl, st, k) ==
    UserResult(Nil, FALSE, FALSE, cr, cl, st, k, << >>, << >>, NoKey)

\* external.Delete
UserDelete(cr, cl, t, st, k, auth, ans) ==
    LET applicationKeyID == cr.extName
        d == DeleteApplicationKey(cl, t, st, applicationKeyID, auth, ans)
    IN IF applicationKeyID = EmptyStr
       THEN UserResult(Nil, FALSE, FALSE, cr, cl, st, k, << >>, << >>, NoKey)
       ELSE IF d.err # Nil /\ d.err # <<"application key not found">>
       THEN UserResult(Wrap(d.err, "cannot delete application key"),
                       FALSE, FALSE, cr, d.cl, d.b2, k, d.reqs, << >>, NoKey)
       ELSE UserResult(Nil, FALSE, FALSE, cr, d.cl, d.b2, k, d.reqs, << >>, NoKey)

-----------------------------------------------------------------------------
(* The User resources and the steps of their external client *)

ListFiles == <<"listFiles", "readFiles">>

UserCRs ==
    [name : {<<"u">>}, keyName : {<<"n">>}, capabilities : {ListFiles},
     bucketID : {EmptyStr}, namePrefix : {EmptyStr},
     extName : {EmptyStr, KeyID(1)},
     statusKeyID : {EmptyStr}, statusKeyName : {EmptyStr},
     statusCapabilities : {<< >>}]

\* A key issued earlier for the resource, a Secret written earlier
FirstKey == NewKey(1, [keyName |-> <<"n">>, capabilities |-> ListFiles,
                       bucketId |-> EmptyStr, namePrefix |-> EmptyStr])
OldSecret == [exists |-> TRUE,
              data |-> [applicationKeyId |-> <<"K", "0">>,
                        applicationKey |-> <<"S", "0">>,
                        keyName |-> <<"o">>]]

UserInit ==
    /\ s3 = [b \in BucketNames |-> NoBucket]
    /\ client = CHOOSE cl \in Clients : cl.Region = "us-west-001"
    /\ bucketCR = CHOOSE cr \in BucketCRs : TRUE
    /\ policyCR = NoPolicyCR
    /\ userCR \in UserCRs
    /\ b2 \in {NoKeys, [keys |-> {FirstKey}, next |-> 2]}
    /\ kube \in {NoSecret, OldSecret}
    /\ now = 0
    /\ last = Idle

\* Which b2_list_keys request fails, and how
ListFailures ==
    {[failAt |-> 0, ans |-> HttpOK]} \cup
    [failAt : 1..2, ans : ListKeysAnswers \ {HttpOK}]

\* The provider's answers to an authorize request; none is drawn while the
\* cached token is used
AuthAnswersAt(cl, t) ==
    IF cl.AuthToken # "" /\ t < cl.tokenExpiration THEN {HttpOK} ELSE AuthorizeAnswers

\* The answers a Create may meet: those to requests that are never sent are not drawn
CreateInputs(cl, t) ==
    {i \in [auth : AuthAnswersAt(cl, t), ans : CreateKeyAnswers, f : KubeFailures] :
        /\ i.auth # HttpOK => i.ans = HttpOK
        /\ (i.auth # HttpOK \/ i.ans # HttpOK) => i.f = NoKubeFailure
        /\ i.f.get => ~i.f.update}

UserLast(op, r, auth, ans) ==
    [Idle EXCEPT !.op = op, !.http = ans, !.err = r.err, !.exists = r.exists,
                 !.upToDate = r.upToDate, !.reqs = r.reqs, !.kcalls = r.kcalls,
                 !.keyID = r.key.applicationKeyId,
                 !.kubeBefore = kube, !.keysBefore = b2.keys,
                 !.extBefore = userCR.extName,
                 !.authorized = (authorizeAccount(client, now, auth).err = Nil),
                 !.expBefore = IF client.AuthToken = "" THEN 0 ELSE client.tokenExpiration]

DoUserObserve ==
    \E auth \in AuthAnswersAt(client, now), lf \in ListFailures :
        LET r == UserObserve(userCR, client, now, b2, kube, auth, lf.failAt, lf.ans)
        IN /\ userCR' = r.cr
           /\ client' = r.cl
           /\ last' = UserLast("Observe", r, auth, lf.ans)
           /\ UNCHANGED <<b2, kube, now>>
           /\ UNCHANGED nonUserVars

DoUserCreate ==
    \E i \in CreateInputs(client, now) :
        /\ b2.next <= MaxKeys
        /\ LET r == UserCreate(userCR, client, now, b2, kube, i.auth, i.ans, i.f)
               auth == i.auth
           IN /\ userCR' = r.cr
              /\ client' = r.cl
              /\ b2' = r.b2
              /\ kube' = r.kube
              /\ last' = UserLast("Create", r, auth, i.ans)
              /\ UNCHANGED now
              /\ UNCHANGED nonUserVars

DoUserUpdate ==
    LET r == UserUpdate(userCR, client, b2, kube)
    IN /\ userCR' = r.cr
       /\ client' = r.cl
       /\ b2' = r.b2
       /\ kube' = r.kube
       /\ last' = UserLast("Update", r, HttpOK, HttpOK)
       /\ UNCHANGED now
       /\ UNCHANGED nonUserVars

DoUserDelete ==
    \E auth \in AuthAnswersAt(client, now), ans \in DeleteKeyAnswers(b2, userCR.extName) :
        LET r == UserDelete(userCR, client, now, b2, kube, auth, ans)
        IN /\ userCR' = r.cr
           /\ client' = r.cl
           /\ b2' = r.b2
           /\ kube' = r.kube
           /\ last' = UserLast("Delete", r, auth, ans)
           /\ UNCHANGED now
           /\ UNCHANGED nonUserVars

\* Time passes
Tick ==
    /\ now + TickHours <= MaxHours
    /\ now' = now + TickHours
    /\ last' = Idle
    /\ UNCHANGED <<client, userCR, b2, kube>>
    /\ UNCHANGED nonUserVars

\* Somebody else deletes a key of the account
EnvDeleteKey ==
    \E k \in b2.keys :
        /\ b2' = [b2 EXCEPT !.keys = @ \ {k}]
        /\ last' = Idle
        /\ UNCHANGED <<client, userCR, kube, now>>
        /\ UNCHANGED nonUserVars

UserNext ==
    \/ DoUserObserve
    \/ DoUserCreate
    \/ DoUserUpdate
    \/ DoUserDelete
    \/ Tick
    \/ EnvDeleteKey

SpecUser == UserInit /\ [][UserNext]_vars

-----------------------------------------------------------------------------
(* Properties of the User external client *)

HasKey(keys, id) == \E k \in keys : k.applicationKeyId = id
CountReq(reqs, what) == Cardinality({i \in DOMAIN reqs : reqs[i] = what})

\* C7: User Delete is idempotent: when the key named by the external name no
\* longer exists at the provider (and the provider answers the delete
\* request), Delete returns success rather than an error; all other deletion
\* errors are returned.
C7_UserDeleteIdempotent ==
    (last.op = "Delete" /\ last.extBefore # EmptyStr /\ last.authorized) =>
        /\ (~HasKey(last.keysBefore, last.extBefore) /\ ~last.http.fail)
               => last.err = Nil
        /\ (HasKey(last.keysBefore, last.extBefore)
              /\ (last.http.fail \/ last.http.status # 200)) => last.err # Nil

\* C8: User Create sends the key-creation request at most once, exactly once
\* when the client is authorized, and only then writes the Secret: by Create
\* alone when there was none, by Create, Get and Update when one existed;
\* after a successful Create the Secret holds the id, the secret value and
\* the name of the key just created, which is the resource's external name.
C8_CreateKeyOnceThenWriteSecret ==
    last.op = "Create" =>
        LET new == b2.keys \ last.keysBefore
        IN /\ CountReq(last.reqs, "b2_create_key") <= 1
           /\ last.authorized => CountReq(last.reqs, "b2_create_key") = 1
           /\ Cardinality(new) <= 1
           /\ last.kcalls # << >> =>
                  /\ CountReq(last.reqs, "b2_create_key") = 1
                  /\ \E k \in new : k.applicationKeyId = last.keyID
                  /\ last.kcalls[1] = "Create"
           /\ last.err = Nil =>
                  /\ last.kcalls = IF last.kubeBefore.exists
                                   THEN <<"Create", "Get", "Update">>
                                   ELSE <<"Create">>
                  /\ userCR.extName = last.keyID
                  /\ kube.exists
                  /\ \E k \in new : kube.data = SecretData(k)
                                    /\ k.applicationKeyId = last.keyID

C8_Witness ==
    /\ last.op = "Create" /\ last.err = Nil
    /\ last.kubeBefore = OldSecret
    /\ last.kcalls = <<"Create", "Get", "Update">>
    /\ kube.data.applicationKeyId = last.keyID
    /\ kube.data.applicationKey # OldSecret.data.applicationKey
    /\ CountReq(last.reqs, "b2_create_key") = 1

-----------------------------------------------------------------------------
(* extractBucketFromARN on its own *)

MaxTail == 3        \* characters after the head of an input

ArnAlphabet == {"a", "b", "/", "*"}
Tails == UNION {[1..n -> ArnAlphabet] : n \in 0..MaxTail}

\* How an input starts: the S3 prefix, nothing, the prefix cut short, another
\* service's prefix, no ARN at all
ArnHeads == {ArnPrefix, EmptyStr, SubSeq(ArnPrefix, 1, ArnPrefixLen - 1),
             <<"a", "r", "n", ":", "a", "w", "s", ":", "i", "a", "m", ":", ":">>,
             <<"n", "o", "t", "-">>}

ArnInputs == {h \o t : h \in ArnHeads, t \in Tails}

ARNInit ==
    /\ s3 = [b \in BucketNames |-> NoBucket]
    /\ client = CHOOSE cl \in Clients : cl.Region = "us-west-001"
    /\ bucketCR = CHOOSE cr \in BucketCRs : TRUE
    /\ policyCR = NoPolicyCR
    /\ userCR = NoUserCR
    /\ b2 = NoKeys
    /\ kube = NoSecret
    /\ now = 0
    /\ last \in {[Idle EXCEPT !.op = "input", !.arn = arn] : arn \in ArnInputs}

DoExtractBucketFromARN ==
    /\ last.op = "input"
    /\ last' = [last EXCEPT !.op = "extractBucketFromARN",
                            !.bucket = extractBucketFromARN(last.arn)]
    /\ UNCHANGED <<s3, client, bucketCR, policyCR, userCR, b2, kube, now>>

ARNNext == DoExtractBucketFromARN

SpecARN == ARNInit /\ [][ARNNext]_vars

StartsWith(s, p) == Len(s) >= Len(p) /\ SubSeq(s, 1, Len(p)) = p
NoSlash(s) == \A i \in DOMAIN s : s[i] # "/"

\* C10: for every bucket name B the inputs arn:aws:s3:::B and
\* arn:aws:s3:::B/<anything> (B/* among them) yield B, and every input that
\* does not start with arn:aws:s3::: yields the empty string.
C10_ExtractBucketFromARN ==
    last.op = "extractBucketFromARN" =>
        /\ \A B \in {t \in Tails : NoSlash(t)} :
              (\/ last.arn = ArnPrefix \o B
               \/ StartsWith(last.arn, ArnPrefix \o B \o <<"/">>))
                  => last.bucket = B
        /\ ~StartsWith(last.arn, ArnPrefix) => last.bucket = EmptyStr

C10_Witness ==
    /\ last.op = "extractBucketFromARN"
    /\ last.arn = ArnPrefix \o <<"a", "/", "*">>
    /\ last.bucket = <<"a">>

-----------------------------------------------------------------------------
(* Properties of the Policy helpers *)

PolicyOps == {"Observe", "Create", "Update", "Delete"}

\* The text of member k of an object text as written, JEmpty when there is none
TextMember(text, k) ==
    IF text.t = "obj" /\ \E i \in DOMAIN text.e : text.e[i].k = k
    THEN text.e[CHOOSE i \in DOMAIN text.e : text.e[i].k = k].v
    ELSE JEmpty

\* The first Resource ARN of the first statement as the document spells it:
\* a single string, or the first element of an array; "" when there is none
FirstResourceArn(raw) ==
    LET statements == TextMember(raw, "Statement")
        first == IF statements.t = "arr" /\ Len(statements.e) > 0
                 THEN statements.e[1].v ELSE JEmpty
        res == TextMember(first, "Resource")
    IN CASE res.t = "str" -> res.s
         [] res.t = "arr" /\ Len(res.e) > 0 /\ res.e[1].v.t = "str" -> res.e[1].v.s
         [] OTHER -> EmptyStr

IsValidationError(err) == err # Nil /\ err[1] = "invalid policy configuration"

\* C11: the bucket a Policy operation addresses is AllowBucket when that is
\* set, otherwise the bucket named by the first Resource ARN (a string, or
\* the first element of an array) of the first statement of RawPolicy; when
\* RawPolicy is not JSON, has no statements, has no Resource or its first
\* resource names no bucket, and when neither field is set, the operation
\* fails with a validation error before any provider call.
C11_BucketNameResolution ==
    last.op \in PolicyOps =>
        LET named == extractBucketFromARN(FirstResourceArn(policyCR.rawPolicy))
        IN IF policyCR.allowBucket # EmptyStr
           THEN last.bucket = policyCR.allowBucket /\ ~IsValidationError(last.err)
           ELSE IF named # EmptyStr
           THEN last.bucket = named /\ ~IsValidationError(last.err)
           ELSE IsValidationError(last.err) /\ last.calls = << >>

C11_Witness ==
    /\ last.op \in PolicyOps
    /\ policyCR.allowBucket = EmptyStr /\ policyCR.rawPolicy = RawAllowA
    /\ last.bucket = NameA
    /\ last.calls # << >>

-----------------------------------------------------------------------------
(* isPolicyUpToDate on its own *)

\* The document generatePolicyDocumentV1Beta1 writes for AllowBucket = b
GeneratedFor(b) == generatePolicyDocumentV1Beta1([NoPolicyCR EXCEPT !.allowBucket = b]).doc

Documents == RawPolicies \cup {GeneratedFor(NameB), GeneratedFor(NameA),
                               RawAllowBReordered, JStr(Chars_Allow)}

UpToDateInit ==
    /\ s3 = [b \in BucketNames |-> NoBucket]
    /\ client = CHOOSE cl \in Clients : cl.Region = "us-west-001"
    /\ bucketCR = CHOOSE cr \in BucketCRs : TRUE
    /\ policyCR = NoPolicyCR
    /\ userCR = NoUserCR
    /\ b2 = NoKeys
    /\ kube = NoSecret
    /\ now = 0
    /\ last \in {[Idle EXCEPT !.op = "documents", !.polBefore = current, !.doc = desired] :
                    current \in Documents, desired \in Documents}

DoIsPolicyUpToDate ==
    /\ last.op = "documents"
    /\ last' = [last EXCEPT !.op = "isPolicyUpToDate",
                            !.upToDate = isPolicyUpToDate(last.polBefore, last.doc)]
    /\ UNCHANGED <<s3, client, bucketCR, policyCR, userCR, b2, kube, now>>

UpToDateNext == DoIsPolicyUpToDate

SpecUpToDate == UpToDateInit /\ [][UpToDateNext]_vars

\* Whether two texts spell the same structure: equal strings, arrays equal
\* element by element, objects with the same keys and the same structure
\* under each key, whatever the whitespace and the order of the keys
RECURSIVE SameStructure(_, _)
SameStructure(x, y) ==
    /\ x.t = y.t
    /\ CASE x.t = "str" -> x.s = y.s
         [] x.t = "arr" ->
               /\ Len(x.e) = Len(y.e)
               /\ \A i \in DOMAIN x.e : SameStructure(x.e[i].v, y.e[i].v)
         [] x.t = "obj" ->
               /\ {x.e[i].k : i \in DOMAIN x.e} = {y.e[i].k : i \in DOMAIN y.e}
               /\ \A i \in DOMAIN x.e :
                      SameStructure(x.e[i].v, TextMember(y, x.e[i].k))
         [] OTHER -> FALSE

IsValidJSON(text) == text.t \in {"str", "arr", "obj"}
IsJSONObject(text) == text.t = "obj"

-----------------------------------------------------------------------------
(* What Observe of a Policy takes for a difference *)

\* Whether two texts spell the same structure once the order of array
\* elements is left aside as well
RECURSIVE SameButArrayOrder(_, _)
SameButArrayOrder(x, y) ==
    /\ x.t = y.t
    /\ CASE x.t = "str" -> x.s = y.s
         [] x.t = "arr" ->
               /\ Len(x.e) = Len(y.e)
               /\ \E p \in [DOMAIN x.e -> DOMAIN y.e] :
                      /\ \A i, j \in DOMAIN x.e : p[i] = p[j] => i = j
                      /\ \A i \in DOMAIN x.e : SameButArrayOrder(x.e[i].v, y.e[p[i]].v)
         [] x.t = "obj" ->
               /\ {x.e[i].k : i \in DOMAIN x.e} = {y.e[i].k : i \in DOMAIN y.e}
               /\ \A i \in DOMAIN x.e :
                      SameButArrayOrder(x.e[i].v, TextMember(y, x.e[i].k))
         [] OTHER -> FALSE

\* An Observe that read the bucket's policy and generated the desired document
ObserveCompared ==
    /\ last.op = "Observe" /\ last.err = Nil /\ last.exists
    /\ Len(last.calls) = 2

\* C13: Observe does not canonicalize semantically: a stored document that
\* differs from the desired one only in the order of array elements is
\* reported not up to date, while one that differs only in whitespace or
\* object key order is reported up to date.
C13_ArrayOrderIsADifference ==
    ObserveCompared =>
        /\ (SameButArrayOrder(last.polBefore, last.doc)
              /\ ~SameStructure(last.polBefore, last.doc)) => ~last.upToDate
        /\ SameStructure(last.polBefore, last.doc) => last.upToDate

C13_Witness ==
    /\ ObserveCompared
    /\ last.polBefore = RawAllowBReversed /\ last.doc = GeneratedFor(NameB)
    /\ ~last.upToDate

-----------------------------------------------------------------------------
(* The document generated for AllowBucket *)

\* Whether doc is the allow-all document for bucket b: one statement with
\* Effect "Allow", principal AWS "*", action "s3:*" and the two resources
\* arn:aws:s3:::b and arn:aws:s3:::b/*
IsAllowAllFor(doc, b) ==
    LET statements == TextMember(doc, "Statement")
    IN /\ TextMember(doc, "Version") = JStr(Chars_2012_10_17)
       /\ statements.t = "arr" /\ Len(statements.e) = 1
       /\ LET statement == statements.e[1].v
              resource == TextMember(statement, "Resource")
          IN /\ TextMember(statement, "Effect") = JStr(Chars_Allow)
             /\ TextMember(TextMember(statement, "Principal"), "AWS") = JStr(Chars_Star)
             /\ TextMember(statement, "Action") = JStr(Chars_S3All)
             /\ resource.t = "arr"
             /\ {resource.e[i].v : i \in DOMAIN resource.e}
                    = {JStr(Arn(b)), JStr(ArnAll(b))}

\* A Policy that sets AllowBucket and no RawPolicy
AllowBucketOnly(cr) == cr.allowBucket # EmptyStr /\ cr.rawPolicy = JEmpty

-----------------------------------------------------------------------------
(* Observe and Update of a User whose key differs from the desired one *)

CapabilityLists == {ListFiles, <<"readFiles", "listFiles">>, <<"listFiles">>,
                    <<"listFiles", "listFiles">>}

\* Desired states of a User whose key K1 was created earlier
DriftedUserCRs ==
    [name : {<<"u">>}, keyName : {<<"n">>, <<"m">>}, capabilities : CapabilityLists,
     bucketID : {EmptyStr, <<"B">>}, namePrefix : {EmptyStr, <<"p">>},
     extName : {KeyID(1)},
     statusKeyID : {EmptyStr}, statusKeyName : {EmptyStr},
     statusCapabilities : {<< >>}]

\* What key K1 may be like at the provider
DriftedKeys ==
    {NewKey(1, req) : req \in [keyName : {<<"n">>, <<"m">>},
                               capabilities : {ListFiles, <<"listFiles", "listFiles">>},
                               bucketId : {EmptyStr, <<"B">>},
                               namePrefix : {EmptyStr, <<"p">>}]}

UserDriftInit ==
    /\ s3 = [b \in BucketNames |-> NoBucket]
    /\ client = CHOOSE cl \in Clients : cl.Region = "us-west-001"
    /\ bucketCR = CHOOSE cr \in BucketCRs : TRUE
    /\ policyCR = NoPolicyCR
    /\ userCR \in DriftedUserCRs
    /\ b2 \in {[keys |-> {key}, next |-> 2] : key \in DriftedKeys}
    /\ kube = NoSecret
    /\ now = 0
    /\ last = Idle

UserDriftNext ==
    \/ DoUserObserve
    \/ DoUserUpdate

SpecUserDrift == UserDriftInit /\ [][UserDriftNext]_vars

\* The same elements the same number of times, in any order
SameUnordered(a, b) ==
    /\ Len(a) = Len(b)
    /\ \E p \in [DOMAIN a -> DOMAIN b] :
           /\ \A i, j \in DOMAIN a : p[i] = p[j] => i = j
           /\ \A i \in DOMAIN a : a[i] = b[p[i]]

\* The key the resource's external name names, as the provider held it
ObservedKey == CHOOSE key \in last.keysBefore : key.applicationKeyId = last.extBefore

\* C15: Observe of a User compares the provider's key with the desired spec
\* field by field (key name, capabilities in any order, bucket restriction,
\* name prefix) and reports ResourceUpToDate=true only if every field
\* matches; Update never changes the key.
C15_UserUpToDateFieldByField ==
    /\ (last.op = "Observe" /\ last.err = Nil /\ last.exists) =>
          (last.upToDate <=>
              /\ ObservedKey.keyName = userCR.keyName
              /\ SameUnordered(ObservedKey.capabilities, userCR.capabilities)
              /\ ObservedKey.bucketId = userCR.bucketID
              /\ ObservedKey.namePrefix = userCR.namePrefix)
    /\ last.op = "Update" =>
          /\ last.err = Nil /\ last.reqs = << >>
          /\ b2.keys = last.keysBefore

C15_Witness ==
    /\ last.op = "Observe" /\ last.err = Nil /\ last.exists
    /\ ObservedKey.keyName = userCR.keyName
    /\ ObservedKey.capabilities # userCR.capabilities
    /\ SameUnordered(ObservedKey.capabilities, userCR.capabilities)
    /\ ObservedKey.bucketId = userCR.bucketID
    /\ ObservedKey.namePrefix # userCR.namePrefix
    /\ ~last.upToDate

-----------------------------------------------------------------------------
(* Create, Observe and Update of a Bucket *)

\* C16: Create of a Bucket calls CreateBucket with the resource's bucket name
\* and region and with the bucket type spec.forProvider.bucketType, or
\* "allPrivate" when that field is unset; a failure of CreateBucket is
\* returned as an error.
C16_CreateBucketArguments ==
    last.op = "Create" =>
        /\ last.calls = <<Call("CreateBucket", GetBucketName(bucketCR))>>
        /\ last.args.bucket = GetBucketName(bucketCR)
        /\ last.args.region = bucketCR.region
        /\ last.args.bucketType = (IF bucketCR.bucketType = "" THEN "allPrivate"
                                   ELSE bucketCR.bucketType)
        /\ last.answer # Nil => last.err = Wrap(last.answer, "cannot create bucket")
        /\ last.answer = Nil => last.err = Nil

C16_Witness ==
    /\ last.op = "Create" /\ last.err = Nil
    /\ bucketCR.bucketType = "" /\ last.args.bucketType = "allPrivate"
    /\ last.args.bucket = NameB /\ s3[NameB].exists

\* C17: the access level chosen for a Bucket is carried in the creation
\* request sent to the provider: a bucket created for a resource with
\* bucketType allPublic is public, one created with allPrivate (or no type)
\* is private.
C17_AccessLevelCarried ==
    (last.op = "Create" /\ last.err = Nil) =>
        s3[last.args.bucket].btype = (IF bucketCR.bucketType = "" THEN "allPrivate"
                                      ELSE bucketCR.bucketType)

C19_UpdateIsNoOp ==
    [][last'.op = "Update" =>
          /\ last'.err = Nil /\ last'.calls = << >> /\ last'.reqs = << >>
          /\ s3' = s3
          /\ bucketCR' = bucketCR]_vars

C19_Witness ==
    /\ last.op = "Update" /\ last.err = Nil /\ last.calls = << >>
    /\ s3[last.bucket].exists /\ s3[last.bucket].objects # {}
    /\ bucketCR.bucketType = "allPublic" /\ s3[last.bucket].btype = "allPrivate"

\* C20: the bucket name cannot be changed after the bucket is created: once
\* Create has succeeded (and recorded the created bucket as the resource's
\* external name), every later Observe and Delete addresses that bucket,
\* even if spec.forProvider.bucketName is edited afterwards.
C20_BucketNameFixedAfterCreate ==
    (last.op \in {"Observe", "Delete"} /\ bucketCR.extName # EmptyStr) =>
        /\ last.bucket = bucketCR.extName
        /\ \A i \in DOMAIN last.calls : last.calls[i].bucket = bucketCR.extName

-----------------------------------------------------------------------------
(* The UserReconciler and the PolicyReconciler (apis backblaze/v1) *)

MaxGeneration == 2        \* metadata.generation of a resource goes up to this

\* reconcile.Result.RequeueAfter, in seconds
TenSeconds == 10
Minute == 60
FiveMinutes == 300

\* In this part an error is its message, word by word; wrapping puts the
\* words of the outer message and a colon in front
WrapWords(err, words) ==
    [i \in 1..Len(words) |-> IF i = Len(words) THEN words[i] \o ":" ELSE words[i]] \o err

\* strings.Contains(message, "not found")
ContainsNotFound(message) ==
    \E i \in 1..(Len(message) - 1) : message[i] = "not" /\ message[i + 1] = "found"

ErrGetProviderConfigWords == <<"cannot", "get", "referenced", "ProviderConfig">>

\* What the cluster holds for the provider configuration: the
\* ProviderConfig (there, missing or unreadable), its credentials source, its
\* secret reference, and the credentials Secret with its two entries
ProviderConfigCases ==
    {c \in [pc : {"ok", "notfound", "forbidden"}, source : {"Secret", "None"},
            refName : BOOLEAN, secret : {"ok", "notfound"},
            keyID : {"set", "empty", "missing"}, key : {"set"}] :
        \* one thing is wrong at a time, and what is read later is as set up
        /\ c.pc # "ok" => (c.source = "Secret" /\ c.refName /\ c.secret = "ok"
                           /\ c.keyID = "set" /\ c.key = "set")
        /\ c.source # "Secret" => (c.refName /\ c.secret = "ok"
                                   /\ c.keyID = "set" /\ c.key = "set")
        /\ ~c.refName => (c.secret = "ok" /\ c.keyID = "set" /\ c.key = "set")
        /\ c.secret # "ok" => (c.keyID = "set" /\ c.key = "set")
        /\ c.keyID # "set" => c.key = "set"}

ProviderConfigOK ==
    [pc |-> "ok", source |-> "Secret", refName |-> TRUE, secret |-> "ok",
     keyID |-> "set", key |-> "set"]

\* clients.GetProviderConfig
GetProviderConfig(c) ==
    IF c.source = "Secret"
    THEN IF ~c.refName
         THEN <<"secretRef.name", "is", "required", "when", "source", "is", "Secret">>
         ELSE IF c.secret = "notfound"
         THEN WrapWords(<<"secrets", "\"creds\"", "not", "found">>,
                        <<"failed", "to", "get", "credentials", "secret">>)
         ELSE IF c.secret = "forbidden"
         THEN WrapWords(<<"secrets", "\"creds\"", "is", "forbidden">>,
                        <<"failed", "to", "get", "credentials", "secret">>)
         ELSE IF c.keyID = "missing"
         THEN <<"secret", "ns/creds", "does", "not", "contain", "applicationKeyId">>
         ELSE IF c.key = "missing"
         THEN <<"secret", "ns/creds", "does", "not", "contain", "applicationKey">>
         ELSE Nil
    ELSE <<"unsupported", "credentials", "source:", c.source>>

\* clients.NewBackblazeClient
NewBackblazeClient(c) ==
    IF c.keyID = "empty"
    THEN <<"applicationKeyId", "and", "applicationKey", "are", "required">>
    ELSE Nil

\* getBackblazeClient of both reconcilers: nil, or the error
getBackblazeClient(c) ==
    IF c.pc = "notfound"
    THEN WrapWords(<<"ProviderConfig.backblaze.crossplane.io", "\"default\"", "not", "found">>,
                   ErrGetProviderConfigWords)
    ELSE IF c.pc = "forbidden"
    THEN WrapWords(<<"providerconfigs.backblaze.crossplane.io", "\"default\"", "is", "forbidden">>,
                   ErrGetProviderConfigWords)
    ELSE IF GetProviderConfig(c) # Nil
    THEN WrapWords(GetProviderConfig(c), ErrGetProviderConfigWords)
    ELSE NewBackblazeClient(c)

\* fmt.Sprintf("%d", n) and the zero padding of %0wd
DigitChars == <<"0", "1", "2", "3", "4", "5", "6", "7", "8", "9">>
RECURSIVE Decimal(_)
Decimal(n) == IF n < 10 THEN <<DigitChars[n + 1]>>
              ELSE Decimal(n \div 10) \o <<DigitChars[(n % 10) + 1]>>
ZeroPad(s, width) == [i \in 1..(IF width > Len(s) THEN width - Len(s) ELSE 0) |-> "0"] \o s

\* The simulated key of createApplicationKey
SimulatedKeyID(generation) == <<"K", "0", "0", "5">> \o ZeroPad(Decimal(generation), 12)
SimulatedKey(generation) == <<"K", "0", "0", "5">> \o ZeroPad(Decimal(generation * 1000), 24)

ErrStatusUpdate == <<"Operation", "cannot", "be", "fulfilled">>
ErrSecretExists == <<"secrets", "\"creds\"", "already", "exists">>
ErrSecretCreate == <<"Internal", "error", "occurred">>

\* UserReconciler.writeSecret: one Create of the Secret
writeSecret(k, applicationKeyID, applicationKey, fail) ==
    IF fail THEN [err |-> ErrSecretCreate, kube |-> k]
    ELSE IF k.exists THEN [err |-> ErrSecretExists, kube |-> k]
    ELSE [err |-> Nil,
          kube |-> [exists |-> TRUE,
                    data |-> [applicationKeyId |-> applicationKeyID,
                              applicationKey |-> applicationKey]]]

\* UserReconciler.createApplicationKey
createApplicationKey(user, k, fail) ==
    LET applicationKeyID == SimulatedKeyID(user.generation)
        applicationKey == SimulatedKey(user.generation)
        w == writeSecret(k, applicationKeyID, applicationKey, fail)
    IN [err |-> w.err, kube |-> w.kube,
        user |-> [user EXCEPT !.statusKeyID = applicationKeyID]]

SetReady(obj, status, reason) == [obj EXCEPT !.ready = status, !.reason = reason]

\* r.Client.Status().Update(ctx, obj): the object the API server holds afterwards
StatusUpdate(stored, obj, fail) ==
    IF fail THEN [err |-> ErrStatusUpdate, stored |-> stored]
    ELSE [err |-> Nil, stored |-> obj]

ReconcileResult(requeueAfter, err, obj, stored, k, clientErr, created) ==
    [requeueAfter |-> requeueAfter, err |-> err, obj |-> obj, stored |-> stored,
     kube |-> k, clientErr |-> clientErr, created |-> created]

\* UserReconciler.Reconcile with a one-minute requeue for every client error
UserReconcile_AlwaysMinute(user, k, c, secretFails, statusFails) ==
    LET clientErr == getBackblazeClient(c)
        made == createApplicationKey(user, k, secretFails)
        failedClient == SetReady(user, "False", "ClientError")
        failedCreate == SetReady(made.user, "False", "CreateError")
        done == SetReady(IF user.statusKeyID = EmptyStr THEN made.user ELSE user,
                         "True", "Available")
    IN IF user.deleting
       THEN ReconcileResult(0, Nil, user, user,
                            IF secretFails THEN k ELSE NoSecret, Nil, FALSE)
       ELSE IF clientErr # Nil
       THEN LET u == StatusUpdate(user, failedClient, statusFails)
            IN ReconcileResult(Minute, u.err, failedClient, u.stored, k, clientErr, FALSE)
       ELSE IF user.statusKeyID = EmptyStr /\ made.err # Nil
       THEN LET u == StatusUpdate(user, failedCreate, statusFails)
            IN ReconcileResult(Minute, u.err, failedCreate, u.stored, made.kube, Nil, TRUE)
       ELSE LET u == StatusUpdate(user, done, statusFails)
            IN ReconcileResult(FiveMinutes, u.err, done, u.stored,
                               IF user.statusKeyID = EmptyStr THEN made.kube ELSE k,
                               Nil, user.statusKeyID = EmptyStr)

\* UserReconciler.Reconcile
UserReconcile(user, k, c, secretFails, statusFails) ==
    LET clientErr == getBackblazeClient(c)
        made == createApplicationKey(user, k, secretFails)
        failedClient == SetReady(user, "False", "ClientError")
        failedCreate == SetReady(made.user, "False", "CreateError")
        done == SetReady(IF user.statusKeyID = EmptyStr THEN made.user ELSE user,
                         "True", "Available")
    IN IF user.deleting
       THEN ReconcileResult(0, Nil, user, user,
                            IF secretFails THEN k ELSE NoSecret, Nil, FALSE)
       ELSE IF clientErr # Nil
       THEN LET u == StatusUpdate(user, failedClient, statusFails)
            IN ReconcileResult(IF ContainsNotFound(clientErr) THEN TenSeconds ELSE Minute,
                               u.err, failedClient, u.stored, k, clientErr, FALSE)
       ELSE IF user.statusKeyID = EmptyStr /\ made.err # Nil
       THEN LET u == StatusUpdate(user, failedCreate, statusFails)
            IN ReconcileResult(Minute, u.err, failedCreate, u.stored, made.kube, Nil, TRUE)
       ELSE LET u == StatusUpdate(user, done, statusFails)
            IN ReconcileResult(FiveMinutes, u.err, done, u.stored,
                               IF user.statusKeyID = EmptyStr THEN made.kube ELSE k,
                               Nil, user.statusKeyID = EmptyStr)

\* A *string of the v1 API: nil, or a value
NilPtr == [nil |-> TRUE, v |-> EmptyStr]
Ptr(v) == [nil |-> FALSE, v |-> v]
NilDoc == [nil |-> TRUE, v |-> JEmpty]

\* json.Unmarshal([]byte(text), &temp) with temp an interface{}
UnmarshalAny(text) ==
    IF text.t \in {"empty", "bad"}
    THEN <<"invalid", "character", "'x'", "looking", "for", "beginning", "of", "value">>
    ELSE Nil

\* PolicyReconciler.generateSimplePolicy: json.MarshalIndent of the policy map
generateSimplePolicy(bucketName) ==
    Spaced(Marshal(
        GoMap([k \in {"Version", "Statement"} |->
            IF k = "Version" THEN GoString(Chars_2012_10_17)
            ELSE GoSlice(<<GoMap(
                [j \in {"Effect", "Action", "Resource"} |->
                    CASE j = "Effect" -> GoString(Chars_Allow)
                      [] j = "Action" -> GoSlice(<<GoString(Chars_S3All)>>)
                      [] OTHER ->
                            GoSlice(<<GoString(ArnPrefix \o bucketName),
                                      GoString(ArnPrefix \o bucketName
                                               \o <<"/", "*">>)>>)])>>)])))

ErrInvalidPolicyParams ==
    <<"invalid", "policy", "parameters:", "specify", "either", "allowBucket",
      "or", "rawPolicy,", "not", "both">>

\* PolicyReconciler.createPolicy
createPolicy(policy) ==
    IF policy.allowBucket.nil = policy.rawPolicy.nil
    THEN [err |-> ErrInvalidPolicyParams, policy |-> policy]
    ELSE IF ~policy.allowBucket.nil
    THEN [err |-> Nil,
          policy |-> [policy EXCEPT !.statusPolicyName = policy.name,
                                    !.statusDoc = generateSimplePolicy(policy.allowBucket.v)]]
    ELSE IF UnmarshalAny(policy.rawPolicy.v) # Nil
    THEN [err |-> WrapWords(UnmarshalAny(policy.rawPolicy.v),
                            <<"invalid", "raw", "policy:", "must", "be", "valid", "JSON">>),
          policy |-> policy]
    ELSE [err |-> Nil,
          policy |-> [policy EXCEPT !.statusPolicyName = policy.name,
                                    !.statusDoc = policy.rawPolicy.v]]

\* PolicyReconciler.Reconcile
PolicyReconcile(policy, k, c, statusFails) ==
    LET clientErr == getBackblazeClient(c)
        made == createPolicy(policy)
        failedClient == SetReady(policy, "False", "ClientError")
        failedCreate == SetReady(made.policy, "False", "CreateError")
        done == SetReady(IF policy.statusPolicyName = EmptyStr THEN made.policy ELSE policy,
                         "True", "Available")
    IN IF policy.deleting
       THEN ReconcileResult(0, Nil, policy, policy, k, Nil, FALSE)
       ELSE IF clientErr # Nil
       THEN LET u == StatusUpdate(policy, failedClient, statusFails)
            IN ReconcileResult(IF ContainsNotFound(clientErr) THEN TenSeconds ELSE Minute,
                               u.err, failedClient, u.stored, k, clientErr, FALSE)
       ELSE IF policy.statusPolicyName = EmptyStr /\ made.err # Nil
       THEN LET u == StatusUpdate(policy, failedCreate, statusFails)
            IN ReconcileResult(Minute, u.err, failedCreate, u.stored, k, Nil, TRUE)
       ELSE LET u == StatusUpdate(policy, done, statusFails)
            IN ReconcileResult(FiveMinutes, u.err, done, u.stored, k, Nil,
                               policy.statusPolicyName = EmptyStr)

-----------------------------------------------------------------------------
(* The v1 resources and the passes of their reconcilers *)

UsersV1 ==
    [name : {<<"u">>}, generation : {1}, statusKeyID : {EmptyStr},
     ready : {""}, reason : {""}, deleting : {FALSE}]

PoliciesV1 ==
    [name : {<<"p">>}, generation : {1},
     allowBucket : {NilPtr, Ptr(NameB)},
     rawPolicy : {NilDoc, [nil |-> FALSE, v |-> JBad]},
     statusPolicyName : {EmptyStr}, statusDoc : {JEmpty},
     ready : {""}, reason : {""}, deleting : {FALSE}]

ReconcilerInit ==
    /\ s3 = [b \in BucketNames |-> NoBucket]
    /\ client = CHOOSE cl \in Clients : cl.Region = "us-west-001"
    /\ bucketCR = CHOOSE cr \in BucketCRs : TRUE
    /\ policyCR \in PoliciesV1
    /\ userCR \in UsersV1
    /\ b2 = NoKeys
    /\ kube = NoSecret
    /\ now = 0
    /\ last = Idle

ReconcileLast(op, r, idBefore) ==
    [Idle EXCEPT !.op = op, !.requeueAfter = r.requeueAfter, !.err = r.err,
                 !.answer = r.clientErr, !.ready = r.obj.ready,
                 !.idBefore = idBefore, !.kubeBefore = kube,
                 !.created = r.created,
                 !.polBefore = IF op = "ReconcilePolicy" THEN policyCR.statusDoc ELSE JEmpty]

\* What a pass of the UserReconciler meets: the provider configuration,
\* whether the call on the Secret fails, whether the status update fails;
\* nothing is drawn for a call the pass does not make
UserPassInputs(user) ==
    {i \in [c : ProviderConfigCases, secretFails : BOOLEAN, statusFails : BOOLEAN] :
        /\ user.deleting => (i.c = ProviderConfigOK /\ ~i.statusFails)
        /\ (~user.deleting /\ getBackblazeClient(i.c) # Nil) => ~i.secretFails
        /\ (~user.deleting /\ user.statusKeyID # EmptyStr) => ~i.secretFails}

DoUserReconcile ==
    \E i \in UserPassInputs(userCR) :
        LET c == i.c
            secretFails == i.secretFails
            statusFails == i.statusFails
            r == UserReconcile(userCR, kube, c, secretFails, statusFails)
        IN /\ userCR' = r.stored
           /\ kube' = r.kube
           /\ last' = ReconcileLast("ReconcileUser", r, userCR.statusKeyID)
           /\ UNCHANGED <<s3, client, bucketCR, policyCR, b2, now>>

DoPolicyReconcile ==
    \E c \in ProviderConfigCases, statusFails \in BOOLEAN :
        LET r == PolicyReconcile(policyCR, kube, c, statusFails)
        IN /\ policyCR' = r.stored
           /\ kube' = r.kube
           /\ last' = ReconcileLast("ReconcilePolicy", r, policyCR.statusPolicyName)
           /\ UNCHANGED <<s3, client, bucketCR, userCR, b2, now>>

\* Somebody edits the spec of the User: its generation goes up
EnvEditUser ==
    /\ userCR.generation < MaxGeneration
    /\ ~userCR.deleting
    /\ userCR' = [userCR EXCEPT !.generation = @ + 1]
    /\ last' = Idle
    /\ UNCHANGED <<s3, client, bucketCR, policyCR, b2, kube, now>>

\* Somebody deletes the User: its deletion timestamp is set
EnvDeleteUser ==
    /\ ~userCR.deleting
    /\ userCR' = [userCR EXCEPT !.deleting = TRUE]
    /\ last' = Idle
    /\ UNCHANGED <<s3, client, bucketCR, policyCR, b2, kube, now>>

ReconcilerNext ==
    \/ DoUserReconcile
    \/ DoPolicyReconcile
    \/ EnvEditUser
    \/ EnvDeleteUser

SpecReconcilers == ReconcilerInit /\ [][ReconcilerNext]_vars

ReconcileOps == {"ReconcileUser", "ReconcilePolicy"}

\* C21: in the User and Policy reconcilers, when resolving the provider
\* configuration or building the client fails, the resource is marked
\* Ready=False (as far as the status update goes through) and the pass asks
\* for a requeue after 10 seconds if the error message contains "not found"
\* and after 1 minute otherwise; no key or policy is created in that pass.
C21_ClientErrorRequeue ==
    (last.op \in ReconcileOps /\ last.answer # Nil) =>
        /\ last.ready = "False"
        /\ last.requeueAfter = (IF ContainsNotFound(last.answer) THEN 10 ELSE 60)
        /\ last.err = Nil =>
              (IF last.op = "ReconcileUser" THEN userCR.ready ELSE policyCR.ready) = "False"
        /\ ~last.created
        /\ kube = last.kubeBefore
        /\ last.op = "ReconcileUser" => userCR.statusKeyID = last.idBefore
        /\ last.op = "ReconcilePolicy" =>
              (policyCR.statusPolicyName = last.idBefore /\ policyCR.statusDoc = last.polBefore)

C21_Witness ==
    /\ last.op = "ReconcileUser" /\ last.err = Nil
    /\ ContainsNotFound(last.answer) /\ last.requeueAfter = 10
    /\ userCR.ready = "False" /\ userCR.statusKeyID = EmptyStr /\ ~kube.exists

\* C30: in the UserReconciler, across any sequence of reconcile passes
\* (including passes in which the secret write fails), whenever a User is
\* marked Ready=True a Secret exists and holds the applicationKeyId recorded
\* in the User's status together with its applicationKey; and a key is
\* created only in a pass that starts with an empty status ApplicationKeyID.
C30_ReadyImpliesSecret ==
    /\ (userCR.ready = "True" /\ ~userCR.deleting) =>
          /\ kube.exists
          /\ kube.data.applicationKeyId = userCR.statusKeyID
          /\ \E g \in 1..MaxGeneration :
                /\ kube.data.applicationKeyId = SimulatedKeyID(g)
                /\ kube.data.applicationKey = SimulatedKey(g)
    /\ (last.op = "ReconcileUser" /\ last.created) => last.idBefore = EmptyStr

-----------------------------------------------------------------------------
(* The cached bearer token *)

\* B2 states a token to be good for this many hours
ServerTokenHours == 24

KeyOps == {"Observe", "Create", "Delete"}
KeyRequests == {"b2_create_key", "b2_delete_key", "b2_list_keys"}

\* C22: within one client instance, after a successful authorize call the
\* cached token is reused by later application-key operations without a new
\* authorize call while the cached expiry has not passed; once it has passed
\* the next operation authorizes again before it sends its request; and no
\* key request is sent with a token past the margin before the
\* server-stated expiry.
C22_TokenReuseUntilExpiry ==
    (last.op \in KeyOps /\ last.reqs # << >>) =>
        /\ now < last.expBefore => CountReq(last.reqs, "b2_authorize_account") = 0
        /\ now >= last.expBefore =>
              /\ last.reqs[1] = "b2_authorize_account"
              /\ CountReq(last.reqs, "b2_authorize_account") = 1
        /\ (\E i \in DOMAIN last.reqs : last.reqs[i] \in KeyRequests) =>
              /\ client.AuthToken # ""
              /\ now < client.tokenExpiration
              /\ client.tokenExpiration <= now + TokenLifetimeHours
              /\ now < (client.tokenExpiration - TokenLifetimeHours) + ServerTokenHours

\* A token from an earlier operation has expired and the operation
\* authorizes again before its key request
C22_Witness ==
    /\ last.op \in KeyOps
    /\ last.expBefore > 0 /\ now >= last.expBefore
    /\ Len(last.reqs) >= 2
    /\ last.reqs[1] = "b2_authorize_account" /\ last.reqs[2] \in KeyRequests
    /\ client.tokenExpiration = now + TokenLifetimeHours

-----------------------------------------------------------------------------
(* DeleteAllObjectsInBucket on its own *)

\* The failures a run of the loop may meet: one failing request, or objects
\* that DeleteObjects reports as not deleted (held by a retention lock)
DrainFailures(objs) ==
    {[f EXCEPT !.locked = l] : f \in FailPoints, l \in SUBSET objs}

DrainInit ==
    /\ s3 \in [BucketNames ->
                  {NoBucket} \cup
                  {[exists |-> TRUE, objects |-> objs, region |-> "us-west-001",
                    btype |-> "allPrivate", policy |-> NoPolicy] : objs \in SUBSET Objects}]
    /\ client = CHOOSE cl \in Clients : cl.Region = "us-west-001"
    /\ bucketCR = CHOOSE cr \in BucketCRs : TRUE
    /\ policyCR = NoPolicyCR
    /\ userCR = NoUserCR
    /\ b2 = NoKeys
    /\ kube = NoSecret
    /\ now = 0
    /\ last = Idle

\* A direct call of BackblazeClient.DeleteAllObjectsInBucket
DoDeleteAllObjectsInBucket ==
    \E b \in BucketNames : \E f \in DrainFailures(s3[b].objects) :
        LET r == DeleteAllObjectsInBucket(s3, b, f)
        IN /\ s3' = r.s3
           /\ last' = [Idle EXCEPT !.op = "DeleteAllObjectsInBucket", !.bucket = b,
                                   !.err = r.err, !.reqs = r.reqs,
                                   !.objsBefore = s3[b].objects,
                                   !.existedBefore = s3[b].exists,
                                   !.locked = f.locked]
           /\ UNCHANGED <<client, bucketCR>>
           /\ UNCHANGED nonBucketVars

DrainNext ==
    \/ DoDeleteAllObjectsInBucket
    \/ EnvPutObject

SpecDrain == DrainInit /\ [][DrainNext]_vars

\* The requests alternate ListObjectsV2, DeleteObjects from the first on
ListsThenDeletes(reqs) ==
    \A i \in DOMAIN reqs :
        reqs[i] = (IF i % 2 = 1 THEN "ListObjectsV2" ELSE "DeleteObjects")

\* C23: DeleteAllObjectsInBucket keeps listing with the continuation token
\* and deleting each listed page until a listing reports no more pages, then
\* terminates; when it returns without error every object that was in the
\* bucket has been deleted, and a list or delete failure (a failed request,
\* or an object that a delete request did not delete) is returned as an error.
C23_DrainDeletesEverything ==
    last.op = "DeleteAllObjectsInBucket" =>
        /\ ListsThenDeletes(last.reqs)
        /\ Len(last.reqs) <= 2 * MaxObjects + 1
        /\ last.err = Nil => s3[last.bucket].objects = {}
        /\ last.locked # {} => last.err # Nil
        /\ last.err # Nil => s3[last.bucket].objects \subseteq last.objsBefore

-----------------------------------------------------------------------------
(* internal/controller/user: connector.Connect under concurrent reconciles *)

MaxWorkers == 2      \* reconcile goroutines of the controller
MaxInstances == 3    \* BackblazeClient instances built in one run

Workers == 1..MaxWorkers
ManagedResources == {"user-a", "user-b"}

\* A worker between two reconciles
IdleWorker == [pc |-> "idle", mg |-> "", service |-> 0]

\* How the steps of Connect may end
ConnectCases ==
    {"ok", "no providerConfigRef provided", "cannot get ProviderConfig",
     "cannot get credentials", "cannot create new Service"}

\* A connector that keeps the first client it built and hands it out again
Connect_Cached(heap, case) ==
    IF case # "ok"
    THEN [err |-> <<case>>, heap |-> heap, service |-> 0]
    ELSE IF heap # << >>
    THEN [err |-> Nil, heap |-> heap, service |-> 1]
    ELSE [err |-> Nil,
          heap |-> Append(heap, CHOOSE cl \in Clients : cl.Region = "us-west-001"),
          service |-> Len(heap) + 1]

\* connector.Connect: heap holds the BackblazeClient instances built so far,
\* service is the index of the instance the returned external points to
Connect(heap, case) ==
    IF case # "ok"
    THEN [err |-> <<case>>, heap |-> heap, service |-> 0]
    ELSE [err |-> Nil,
          heap |-> Append(heap, CHOOSE cl \in Clients : cl.Region = "us-west-001"),
          service |-> Len(heap) + 1]

ConnectInit ==
    /\ s3 = [b \in BucketNames |-> NoBucket]
    /\ client = << >>
    /\ bucketCR = CHOOSE cr \in BucketCRs : TRUE
    /\ policyCR = NoPolicyCR
    /\ userCR = [w \in Workers |-> IdleWorker]
    /\ b2 = NoKeys
    /\ kube = NoSecret
    /\ now = 0
    /\ last = Idle

\* A worker takes a resource no other worker is reconciling and connects
DoConnect(w) ==
    /\ userCR[w].pc = "idle"
    /\ Len(client) < MaxInstances
    /\ \E mg \in ManagedResources, case \in ConnectCases :
          /\ \A v \in Workers : userCR[v].mg # mg
          /\ LET r == Connect(client, case)
             IN /\ client' = r.heap
                /\ userCR' = [userCR EXCEPT ![w] =
                                 IF r.err = Nil
                                 THEN [pc |-> "connected", mg |-> mg, service |-> r.service]
                                 ELSE IdleWorker]
                /\ last' = [Idle EXCEPT !.op = "Connect", !.err = r.err,
                                        !.worker = w, !.service = r.service]
    /\ UNCHANGED <<b2, kube, now>>
    /\ UNCHANGED nonUserVars

\* An operation of the external (Observe, Create, Delete) enters
\* authorizeAccount on the client it was connected with
DoAuthorize(w) ==
    /\ userCR[w].pc = "connected"
    /\ LET i == userCR[w].service
       IN \E auth \in AuthAnswersAt(client[i], now) :
             LET a == authorizeAccount(client[i], now, auth)
             IN /\ client' = [client EXCEPT ![i] = a.cl]
                /\ last' = [Idle EXCEPT !.op = "authorizeAccount", !.err = a.err,
                                        !.reqs = a.reqs, !.worker = w, !.service = i]
    /\ UNCHANGED <<userCR, b2, kube, now>>
    /\ UNCHANGED nonUserVars

\* The reconcile returns; its external is dropped
DoDisconnect(w) ==
    /\ userCR[w].pc = "connected"
    /\ userCR' = [userCR EXCEPT ![w] = IdleWorker]
    /\ last' = [Idle EXCEPT !.op = "Disconnect", !.worker = w,
                            !.service = userCR[w].service]
    /\ UNCHANGED <<client, b2, kube, now>>
    /\ UNCHANGED nonUserVars

ConnectNext ==
    \/ \E w \in Workers : DoConnect(w)
    \/ \E w \in Workers : DoAuthorize(w)
    \/ \E w \in Workers : DoDisconnect(w)
    \/ Tick

SpecConnect == ConnectInit /\ [][ConnectNext]_vars

\* No two reconciles in progress hold the same client instance
NoSharedClient ==
    \A v, w \in Workers :
        (v # w /\ userCR[v].pc # "idle" /\ userCR[w].pc # "idle")
            => userCR[v].service # userCR[w].service

\* A step that changes the cached token of an instance is authorizeAccount
\* run by the worker connected with that instance, and Connect returns an
\* instance that did not exist before
TokenStep ==
    /\ \A i \in DOMAIN client :
          (client'[i].AuthToken # client[i].AuthToken
             \/ client'[i].tokenExpiration # client[i].tokenExpiration)
          => /\ last'.op = "authorizeAccount"
             /\ userCR[last'.worker].pc = "connected"
             /\ userCR[last'.worker].service = i
    /\ (last'.op = "Connect" /\ last'.err = Nil)
          => /\ last'.service \notin DOMAIN client
             /\ client'[last'.service].AuthToken = ""

\* C24: the cached bearer token of a client instance is written only by the
\* authorize call-path and no two reconcile invocations hold the same
\* instance at once, every Connect building a fresh client instance.
C24_TokenNotShared == []NoSharedClient /\ [][TokenStep]_vars

C24_Witness ==
    /\ \A w \in Workers : userCR[w].pc = "connected"
    /\ \A w \in Workers : client[userCR[w].service].AuthToken # ""
    /\ last.op = "authorizeAccount"
    /\ last.reqs = <<"b2_authorize_account">>

-----------------------------------------------------------------------------
(* equalStringSlices on its own *)

MaxSliceLen == 3

SliceElements == {"listFiles", "readFiles"}

\* The slices of at most MaxSliceLen elements, the nil slice included
Slices == UNION {[1..n -> SliceElements] : n \in 0..MaxSliceLen}

\* The slices compared: the desired capabilities of the resource and those
\* of a key of the account
SlicesInit ==
    /\ s3 = [b \in BucketNames |-> NoBucket]
    /\ client = CHOOSE cl \in Clients : cl.Region = "us-west-001"
    /\ bucketCR = CHOOSE cr \in BucketCRs : TRUE
    /\ policyCR = NoPolicyCR
    /\ userCR \in {[NoUserCR EXCEPT !.capabilities = a] : a \in Slices}
    /\ b2 \in {[keys |-> {[NoKey EXCEPT !.n = 1, !.capabilities = b]}, next |-> 2] :
                  b \in Slices}
    /\ kube = NoSecret
    /\ now = 0
    /\ last = Idle

\* The key whose capabilities are compared
ComparedKey == CHOOSE key \in b2.keys : TRUE

\* equalStringSlices(a, b), and with it (b, a) and (a, a)
DoEqualStringSlices ==
    /\ LET a == userCR.capabilities
           b == ComparedKey.capabilities
       IN last' = [Idle EXCEPT !.op = "equalStringSlices",
                               !.eq = <<equalStringSlices(a, b),
                                        equalStringSlices(b, a),
                                        equalStringSlices(a, a)>>]
    /\ UNCHANGED <<client, userCR, b2, kube, now>>
    /\ UNCHANGED nonUserVars

\* Somebody edits spec.forProvider.capabilities
EnvEditCapabilities ==
    /\ \E a \in Slices :
          /\ a # userCR.capabilities
          /\ userCR' = [userCR EXCEPT !.capabilities = a]
    /\ last' = Idle
    /\ UNCHANGED <<client, b2, kube, now>>
    /\ UNCHANGED nonUserVars

SlicesNext ==
    \/ DoEqualStringSlices
    \/ EnvEditCapabilities

SpecSlices == SlicesInit /\ [][SlicesNext]_vars

\* How often v occurs in slice a
Occurrences(a, v) == Cardinality({i \in DOMAIN a : a[i] = v})

\* C25: equalStringSlices(a, b) is true exactly when a and b hold the same
\* elements with the same multiplicities, in any order; it is symmetric and
\* reflexive, and false when the lengths or the count of an element differ.
C25_EqualStringSlicesIsMultisetEquality ==
    last.op = "equalStringSlices" =>
        LET a == userCR.capabilities
            b == ComparedKey.capabilities
        IN /\ last.eq[1] = (\A v \in SliceElements : Occurrences(a, v) = Occurrences(b, v))
           /\ last.eq[1] = SameUnordered(a, b)
           /\ last.eq[2] = last.eq[1]
           /\ last.eq[3]
           /\ Len(a) # Len(b) => ~last.eq[1]

C25_Witness ==
    /\ last.op = "equalStringSlices"
    /\ Len(userCR.capabilities) = MaxSliceLen
    /\ userCR.capabilities # ComparedKey.capabilities
    /\ {userCR.capabilities[i] : i \in DOMAIN userCR.capabilities} = SliceElements
    /\ last.eq[1]

-----------------------------------------------------------------------------
(* Policy Observe: what it reports for the provider's answers *)

\* C26: Policy Observe reports ResourceExists = false, without error, when
\* the target bucket does not exist or the bucket has no policy; it returns
\* an error for every other BucketExists or GetBucketPolicy failure; and it
\* reports ResourceExists = true only after a policy document was fetched.
C26_ObserveExistence ==
    (last.op = "Observe" /\ last.calls # << >>) =>
        LET noBucket == IsNotFoundAnswer(last.answer)
            noPolicy == /\ last.answer = Nil
                        /\ \/ ErrorCode(last.getAnswer) = "NoSuchBucketPolicy"
                           \/ last.getAnswer = Nil /\ last.polBefore = NoPolicy
            otherFailure == \/ last.answer # Nil /\ ~noBucket
                            \/ last.answer = Nil /\ last.getAnswer # Nil /\ ~noPolicy
        IN /\ (noBucket \/ noPolicy) => (last.err = Nil /\ ~last.exists)
           /\ otherFailure => last.err # Nil
           /\ last.exists => /\ last.err = Nil
                             /\ HasCall(last.calls, "GetBucketPolicy")
                             /\ last.getAnswer = Nil
                             /\ last.polBefore # NoPolicy
                             /\ policyCR.statusPolicy = last.polBefore

-----------------------------------------------------------------------------
(* Policy Observe and Update as a cycle *)

\* C27: a successful Update has put the full desired document on the bucket
\* with PutBucketPolicy, and the Observe that follows a successful Update
\* (the provider answering its two reads) reports ResourceUpToDate = true.
C27_UpdateConverges ==
    /\ (last.op = "Update" /\ last.err = Nil) =>
          /\ last.calls = <<Call("PutBucketPolicy", last.bucket)>>
          /\ last.doc = generatePolicyDocumentV1Beta1(policyCR).doc
          /\ s3[last.bucket].policy = last.doc
    /\ (last.op = "Observe" /\ last.afterUpdate # ""
          /\ last.answer = Nil /\ last.getAnswer = Nil) =>
          /\ last.err = Nil
          /\ last.exists
          /\ last.upToDate

C27_Witness ==
    /\ last.op = "Observe"
    /\ last.afterUpdate = "changed"
    /\ last.calls = <<Call("BucketExists", NameB), Call("GetBucketPolicy", NameB)>>
    /\ last.polBefore = generatePolicyDocumentV1Beta1(policyCR).doc
    /\ last.err = Nil /\ last.exists /\ last.upToDate

-----------------------------------------------------------------------------
(* User Observe: the lookup of the key in the pages of the key listing *)

\* A User that names any key the account may hold, one it does not hold, or none
LookupUserCRs ==
    {[cr EXCEPT !.extName = id] :
        cr \in UserCRs, id \in {EmptyStr} \cup {KeyID(n) : n \in 1..(MaxKeys + 1)}}

\* The keys an account may hold
LookupKeys ==
    {NewKey(n, [keyName |-> <<"n">>, capabilities |-> ListFiles,
                bucketId |-> EmptyStr, namePrefix |-> EmptyStr]) : n \in KeyNumbers}

KeyLookupInit ==
    /\ s3 = [b \in BucketNames |-> NoBucket]
    /\ client = CHOOSE cl \in Clients : cl.Region = "us-west-001"
    /\ bucketCR = CHOOSE cr \in BucketCRs : TRUE
    /\ policyCR = NoPolicyCR
    /\ userCR \in LookupUserCRs
    /\ b2 \in {[keys |-> keys, next |-> MaxKeys + 1] : keys \in SUBSET LookupKeys}
    /\ kube = NoSecret
    /\ now = 0
    /\ last = Idle

KeyLookupNext ==
    \/ DoUserObserve
    \/ EnvDeleteKey

SpecKeyLookup == KeyLookupInit /\ [][KeyLookupNext]_vars

\* The keys of the account that precede key k in the listing
KeysBefore(keys, k) == {j \in keys : j.n < k.n}

\* The number of pages a listing of n keys has
PageCount(n) == IF n = 0 THEN 1 ELSE (n + KeyPageSize - 1) \div KeyPageSize

\* C28: User Observe reports ResourceExists = false without any provider
\* call when the resource has no external name, ResourceExists = false
\* without error when no page of the key listing holds the external-name key
\* id, and ResourceExists = true exactly when some page holds it; the lookup
\* follows the next-page markers until the key is found or no page remains.
C28_ObserveFindsKeyOnAnyPage ==
    last.op = "Observe" =>
        LET named == {k \in last.keysBefore : k.applicationKeyId = last.extBefore}
            lists == CountReq(last.reqs, "b2_list_keys")
        IN /\ last.extBefore = EmptyStr =>
                 (last.reqs = << >> /\ last.err = Nil /\ ~last.exists)
           /\ last.err = Nil => (last.exists <=> (last.extBefore # EmptyStr /\ named # {}))
           /\ last.err # Nil => ~last.exists
           /\ (last.err = Nil /\ last.exists) =>
                 /\ last.keyID = last.extBefore
                 /\ \A k \in named :
                       lists = (Cardinality(KeysBefore(last.keysBefore, k)) \div KeyPageSize) + 1
           /\ (last.err = Nil /\ ~last.exists /\ last.extBefore # EmptyStr) =>
                 lists = PageCount(Cardinality(last.keysBefore))
           /\ lists <= PageCount(Cardinality(last.keysBefore))

C28_Witness ==
    /\ last.op = "Observe"
    /\ last.err = Nil /\ last.exists
    /\ Cardinality(last.keysBefore) > KeyPageSize
    /\ CountReq(last.reqs, "b2_list_keys") = 2
    /\ HasKey(b2.keys, KeyID(1))

-----------------------------------------------------------------------------
(* Policy Create and Update: the bucket and the document of PutBucketPolicy *)

\* C29: whenever Policy Create or Update calls PutBucketPolicy(b, d), b is
\* the bucket named by the first Resource ARN of the first statement of d,
\* and b and d derive from the same spec field: both from AllowBucket, or
\* both from RawPolicy.
C29_PutTargetsDocumentBucket ==
    (last.op \in {"Create", "Update"} /\ HasCall(last.calls, "PutBucketPolicy")) =>
        /\ last.calls = <<Call("PutBucketPolicy",
                               extractBucketFromARN(FirstResourceArn(last.doc)))>>
        /\ \/ /\ last.bucket = policyCR.allowBucket
              /\ last.doc = GeneratedFor(policyCR.allowBucket)
           \/ /\ policyCR.allowBucket = EmptyStr
              /\ last.bucket = extractBucketFromARN(FirstResourceArn(policyCR.rawPolicy))
              /\ last.doc = policyCR.rawPolicy

=============================================================================
